---- MODULE Spec2Model ----
(***************************************************************************)
(* A model of the TraceGraph component (olegelantsev/react-trace-chart).   *)
(*                                                                         *)
(* The repository holds several variants of one component.  The model      *)
(* joins the free-drag variant (src/src/components/TraceGraph.tsx, lines   *)
(* 782-1415: leveler, positions, zoom, drag, click capture, measure) with  *)
(* the connector builder of the span-reference variant                     *)
(* (src/unnamed/part_000, lines 1-448: serviceEdges, spanConnectors with   *)
(* outboundSpanRef, incoming aggregation and edge fan-out).                *)
(*                                                                         *)
(* Strings are TLA+ strings; a string that the code splits on ':' is kept  *)
(* as the sequence of its tokens (":" is a token of its own), so that      *)
(* split and the template literals are computed, not assumed.              *)
(* Screen coordinates are in 1/100 px, zoom is in 1/100, so that the       *)
(* division by the zoom factor is exact on the values the model uses.      *)
(***************************************************************************)
EXTENDS Integers, Sequences, FiniteSets, TLC

VARIABLES
  services,            \* prop: sequence of service nodes
  edges,               \* prop: sequence of edges
  expanded,            \* useState: set of expanded service ids
  geometry,            \* useState: GeometryState
  layoutPending,       \* the layout effect of the last commit has not run yet
  zoom,                \* useState: zoom factor, in 1/100
  positions,           \* useState: service id -> Position
  dragState,           \* useRef: the active gesture record, or NoDrag
  recentlyDraggedRef,  \* useRef: id whose click is to be suppressed, or Null
  rafCallbacks,        \* requestAnimationFrame callbacks not yet run (ids)
  memo,                \* leveler: computeLevel's memo map
  levelBuckets,        \* leveler: level -> sequence of service ids
  cursor,              \* leveler: index of the next service of the forEach
  rangeError,          \* leveler: the recursion overflowed the call stack
  container,           \* DOM: the container's size and scroll offset, 1/100 px
  variant,             \* which variant of the component is mounted
  effect,              \* the layout effect's listeners and the pending effects
  published,           \* what the last setGeometry call did
  expandedOrder,       \* the insertion order of the expanded Set
  notified,            \* the argument of the last onExpandedChange call
  hist,                \* history: connector sets before the last event, a toggle
  gest                 \* history: the physical pointers' gestures

vars == <<services, edges, expanded, geometry, layoutPending, zoom, positions,
          dragState, recentlyDraggedRef, rafCallbacks, memo, levelBuckets,
          cursor, rangeError, container, variant, effect, published,
          expandedOrder, notified, hist, gest>>

propVars == <<services, edges>>
dragVars == <<dragState, recentlyDraggedRef, rafCallbacks>>
levelVars == <<memo, levelBuckets, cursor, rangeError>>
domVars == <<container, variant>>
toggleVars == <<expandedOrder, notified>>
quietVars == <<container, variant, effect, published, expandedOrder, notified>>

----------------------------------------------------------------------------
(* Bounds of the model. *)

MaxBSpans == 2
MaxEdges == 2
MaxLevelNodes == 3
MaxLevelEdges == 3
MaxGestures == 2

----------------------------------------------------------------------------
(* Values. *)

Null == "<null>"
undefined == "<undefined>"

Falsy(s) == s = undefined \/ s = ""

Max2(a, b) == IF a >= b THEN a ELSE b
Min2(a, b) == IF a <= b THEN a ELSE b
Abs(a) == IF a >= 0 THEN a ELSE 0 - a

\* (the value of the last argument instead of the greatest)
MaxOfSeq_lastArgument(s) == s[Len(s)]

RECURSIVE MaxOfSeq(_)
MaxOfSeq(s) ==
  IF Len(s) = 1 THEN s[1] ELSE Max2(s[1], MaxOfSeq(Tail(s)))

RECURSIVE ConcatAll(_)
ConcatAll(ss) ==
  IF ss = <<>> THEN <<>> ELSE ss[1] \o ConcatAll(Tail(ss))

RECURSIVE Join(_)
\* the string spelled by a token sequence
Join(tokens) ==
  IF tokens = <<>> THEN "" ELSE tokens[1] \o Join(Tail(tokens))

RECURSIVE SplitFrom(_, _, _)
SplitFrom(tokens, current, acc) ==
  IF tokens = <<>> THEN Append(acc, current)
  ELSE IF tokens[1] = ":" THEN SplitFrom(Tail(tokens), "", Append(acc, current))
  ELSE SplitFrom(Tail(tokens), current \o tokens[1], acc)

\* String.prototype.split(':')
split(tokens) == SplitFrom(tokens, "", <<>>)

makeSpanKey(serviceId, spanId) == serviceId \o ":" \o spanId

ZOOM_MIN == 50
ZOOM_MAX == 180
ZOOM_STEP == 10
COLUMN_WIDTH == 320
ROW_HEIGHT == 220
HORIZONTAL_PADDING == 140
VERTICAL_PADDING == 140
NODE_WIDTH == 240
NODE_HEIGHT == 180

CANVAS_PADDING == 400

initialGeometry ==
  [services |-> <<>>, spans |-> <<>>, viewport |-> Null]

\* the path data "M sx sy C sx+d sy, ex-d ey, ex ey"; every number is doubled,
\* because deltaX is a half of an integer
buildCurvePath(start, end) ==
  LET deltaX2 == Max2(Abs(end.x - start.x), 120)
  IN <<"M", 2 * start.x, 2 * start.y,
       "C", 2 * start.x + deltaX2, 2 * start.y,
            2 * end.x - deltaX2, 2 * end.y,
            2 * end.x, 2 * end.y>>

----------------------------------------------------------------------------
(* Dependency Leveler: buildInitialPositions. *)

\* the call stack of the JavaScript engine: a recursion deeper than this
\* throws RangeError
StackLimit == MaxLevelNodes + MaxLevelEdges + 2

RECURSIVE incomingFrom(_, _)
incomingFrom(es, map) ==
  IF es = <<>> THEN map
  ELSE LET edge == es[1]
           old == IF edge.to \in DOMAIN map THEN map[edge.to] ELSE <<>>
       IN incomingFrom(Tail(es), (edge.to :> Append(old, edge.from)) @@ map)

incomingMapOf(es) == incomingFrom(es, <<>>)

RECURSIVE computeLevel(_, _, _, _, _)
RECURSIVE levelsOfParents(_, _, _, _, _, _)
RECURSIVE computeLevel_noStackGuard(_, _, _, _, _)
RECURSIVE levelsOfParents_noIncrement(_, _, _, _, _, _)

\* (a map over the parents that forgets the + 1)
levelsOfParents_noIncrement(incomingMap, m, parents, stack, depth, acc) ==
  IF parents = <<>> THEN [levels |-> acc, memo |-> m, error |-> FALSE]
  ELSE LET r == computeLevel(incomingMap, m, parents[1], stack, depth)
       IN IF r.error THEN [levels |-> acc, memo |-> r.memo, error |-> TRUE]
          ELSE levelsOfParents_noIncrement(incomingMap, r.memo, Tail(parents),
                                           stack, depth, Append(acc, r.level))

\* parents.map((parent) => computeLevel(parent, stack) + 1), the memo threaded
\* through the calls in order
levelsOfParents(incomingMap, m, parents, stack, depth, acc) ==
  IF parents = <<>> THEN [levels |-> acc, memo |-> m, error |-> FALSE]
  ELSE LET r == computeLevel(incomingMap, m, parents[1], stack, depth)
       IN IF r.error THEN [levels |-> acc, memo |-> r.memo, error |-> TRUE]
          ELSE levelsOfParents(incomingMap, r.memo, Tail(parents), stack, depth,
                               Append(acc, r.level + 1))

\* (a computeLevel without the recursion guard)
computeLevel_noStackGuard(incomingMap, m, serviceId, stack, depth) ==
  IF depth > StackLimit THEN [level |-> 0 - 1, memo |-> m, error |-> TRUE]
  ELSE IF serviceId \in DOMAIN m
    THEN [level |-> m[serviceId], memo |-> m, error |-> FALSE]
  ELSE LET parents == IF serviceId \in DOMAIN incomingMap
                      THEN incomingMap[serviceId] ELSE <<>>
       IN IF Len(parents) = 0
          THEN [level |-> 0, memo |-> (serviceId :> 0) @@ m, error |-> FALSE]
          ELSE LET r == levelsOfParents(incomingMap, m, parents,
                                        stack \cup {serviceId}, depth + 1, <<>>)
               IN IF r.error
                  THEN [level |-> 0 - 1, memo |-> r.memo, error |-> TRUE]
                  ELSE LET level == MaxOfSeq(r.levels)
                       IN [level |-> level,
                           memo |-> (serviceId :> level) @@ r.memo,
                           error |-> FALSE]

computeLevel(incomingMap, m, serviceId, stack, depth) ==
  IF depth > StackLimit THEN [level |-> 0 - 1, memo |-> m, error |-> TRUE]
  ELSE IF serviceId \in DOMAIN m
    THEN [level |-> m[serviceId], memo |-> m, error |-> FALSE]
  ELSE IF serviceId \in stack
    THEN [level |-> 0, memo |-> m, error |-> FALSE]
  ELSE LET parents == IF serviceId \in DOMAIN incomingMap
                      THEN incomingMap[serviceId] ELSE <<>>
       IN IF Len(parents) = 0
          THEN [level |-> 0, memo |-> (serviceId :> 0) @@ m, error |-> FALSE]
          ELSE LET r == levelsOfParents(incomingMap, m, parents,
                                        stack \cup {serviceId}, depth + 1, <<>>)
               IN IF r.error
                  THEN [level |-> 0 - 1, memo |-> r.memo, error |-> TRUE]
                  ELSE LET level == MaxOfSeq(r.levels)
                       IN [level |-> level,
                           memo |-> (serviceId :> level) @@ r.memo,
                           error |-> FALSE]

\* (an iteration that starts the bucket of the level anew)
bucketStep_replacesBucket(incomingMap, st, service) ==
  LET r == computeLevel(incomingMap, st.memo, service.id, {}, 1)
  IN IF st.error \/ r.error
     THEN [memo |-> r.memo, buckets |-> st.buckets, error |-> TRUE]
     ELSE [memo |-> r.memo,
           buckets |-> (r.level :> <<service.id>>) @@ st.buckets,
           error |-> FALSE]

\* one iteration of services.forEach at the level buckets
bucketStep(incomingMap, st, service) ==
  LET r == computeLevel(incomingMap, st.memo, service.id, {}, 1)
      bucket == IF r.level \in DOMAIN st.buckets THEN st.buckets[r.level] ELSE <<>>
  IN IF st.error \/ r.error
     THEN [memo |-> r.memo, buckets |-> st.buckets, error |-> TRUE]
     ELSE [memo |-> r.memo,
           buckets |-> (r.level :> Append(bucket, service.id)) @@ st.buckets,
           error |-> FALSE]

RECURSIVE bucketAll(_, _, _)
bucketAll(incomingMap, st, svcs) ==
  IF svcs = <<>> THEN st
  ELSE bucketAll(incomingMap, bucketStep(incomingMap, st, svcs[1]), Tail(svcs))

\* (positions whose buckets start at the vertical anchor instead of being
\* centered on it)
bucketPositions_fromAnchor(buckets) ==
  LET placed == UNION { { <<level, i>> : i \in 1..Len(buckets[level]) }
                        : level \in DOMAIN buckets }
      ids == { buckets[p[1]][p[2]] : p \in placed }
      lastOf(id) == CHOOSE p \in placed :
                      /\ buckets[p[1]][p[2]] = id
                      /\ \A q \in placed : buckets[q[1]][q[2]] = id =>
                           \/ q[1] < p[1]
                           \/ (q[1] = p[1] /\ q[2] <= p[2])
  IN [id \in ids |->
        LET p == lastOf(id)
        IN [x |-> HORIZONTAL_PADDING + p[1] * COLUMN_WIDTH,
            y |-> VERTICAL_PADDING + (p[2] - 1) * ROW_HEIGHT]]

\* positions of the services of the buckets
bucketPositions(buckets) ==
  LET placed == UNION { { <<level, i>> : i \in 1..Len(buckets[level]) }
                        : level \in DOMAIN buckets }
      ids == { buckets[p[1]][p[2]] : p \in placed }
      \* a later assignment to positions[serviceId] overwrites an earlier one
      lastOf(id) == CHOOSE p \in placed :
                      /\ buckets[p[1]][p[2]] = id
                      /\ \A q \in placed : buckets[q[1]][q[2]] = id =>
                           \/ q[1] < p[1]
                           \/ (q[1] = p[1] /\ q[2] <= p[2])
  IN [id \in ids |->
        LET p == lastOf(id)
            totalHeight == (Len(buckets[p[1]]) - 1) * ROW_HEIGHT
            startY == VERTICAL_PADDING - totalHeight \div 2
        IN [x |-> HORIZONTAL_PADDING + p[1] * COLUMN_WIDTH,
            y |-> startY + (p[2] - 1) * ROW_HEIGHT]]

buildInitialPositions(svcs, es) ==
  LET st == bucketAll(incomingMapOf(es),
                      [memo |-> <<>>, buckets |-> <<>>, error |-> FALSE], svcs)
  IN bucketPositions(st.buckets)

----------------------------------------------------------------------------
(* Geometry Tracker: the rendered elements and measure. *)

serviceIds(svcs) == { svcs[i].id : i \in 1..Len(svcs) }

\* services.find((s) => s.id === id): the index of the first match, 0 if none
findService(svcs, id) ==
  IF id \in serviceIds(svcs)
  THEN CHOOSE i \in 1..Len(svcs) :
         svcs[i].id = id /\ \A j \in 1..(i - 1) : svcs[j].id # id
  ELSE 0

\* the host container's bounding rectangle after mount, in 1/100 px
hostRect == [left |-> 2000, top |-> 6000, width |-> 180000, height |-> 90000]

\* the container after mount: not scrolled
initialContainer == [width |-> hostRect.width, height |-> hostRect.height,
                     scrollLeft |-> 0, scrollTop |-> 0]

\* positions[service.id] ?? { x: HORIZONTAL_PADDING, y: VERTICAL_PADDING }
positionOf(pos, id) ==
  IF id \in DOMAIN pos THEN pos[id]
  ELSE [x |-> HORIZONTAL_PADDING, y |-> VERTICAL_PADDING]

\* getBoundingClientRect of a service button: the node is translated to its
\* position inside the canvas, which is scaled by zoom from the origin 0 0
\* and moves with the content the container scrolls
serviceRect(pos, z, id) ==
  LET p == positionOf(pos, id)
  IN [left |-> hostRect.left + p.x * z - container.scrollLeft,
      right |-> hostRect.left + (p.x + NODE_WIDTH) * z - container.scrollLeft,
      top |-> hostRect.top + p.y * z - container.scrollTop,
      bottom |-> hostRect.top + (p.y + NODE_HEIGHT) * z - container.scrollTop,
      width |-> NODE_WIDTH * z,
      height |-> NODE_HEIGHT * z]

\* getBoundingClientRect of the j-th span row of a service: the rows are
\* stacked in the span panel under the button
spanRect(pos, z, id, j) ==
  LET p == positionOf(pos, id)
      rowTop == p.y + NODE_HEIGHT + 8 + (j - 1) * 48
  IN [left |-> hostRect.left + (p.x + 16) * z - container.scrollLeft,
      right |-> hostRect.left + (p.x + NODE_WIDTH - 16) * z
                  - container.scrollLeft,
      top |-> hostRect.top + rowTop * z - container.scrollTop,
      bottom |-> hostRect.top + (rowTop + 40) * z - container.scrollTop,
      width |-> (NODE_WIDTH - 32) * z,
      height |-> 40 * z]

serviceBoxOf(rect, scaleFactor) ==
  [centerX |-> (rect.left - hostRect.left + rect.width \div 2) \div scaleFactor,
   centerY |-> (rect.top - hostRect.top + rect.height \div 2) \div scaleFactor,
   left |-> (rect.left - hostRect.left) \div scaleFactor,
   right |-> (rect.right - hostRect.left) \div scaleFactor,
   top |-> (rect.top - hostRect.top) \div scaleFactor,
   bottom |-> (rect.bottom - hostRect.top) \div scaleFactor]

spanBoxOf(rect, scaleFactor) ==
  [centerX |-> (rect.right - hostRect.left) \div scaleFactor,
   centerY |-> (rect.top - hostRect.top + rect.height \div 2) \div scaleFactor,
   left |-> (rect.left - hostRect.left) \div scaleFactor,
   right |-> (rect.right - hostRect.left) \div scaleFactor,
   top |-> (rect.top - hostRect.top) \div scaleFactor,
   bottom |-> (rect.bottom - hostRect.top) \div scaleFactor]

\* (a measure that finds no span element)
measuredSpans_noneMounted(svcs, exp) == {}

\* (a measure that forgets the expanded check)
measuredSpans_unfiltered(svcs, exp) ==
  UNION { { <<i, j>> : j \in 1..Len(svcs[i].spans) } : i \in 1..Len(svcs) }

\* (a measure with the expanded check turned around)
measuredSpans_ofCollapsed(svcs, exp) ==
  UNION { { <<i, j>> : j \in 1..Len(svcs[i].spans) } :
          i \in { k \in 1..Len(svcs) : svcs[k].id \notin exp } }

\* the spans measure gives a box: the spans of the expanded services
measuredSpans(svcs, exp) ==
  UNION { { <<i, j>> : j \in 1..Len(svcs[i].spans) } :
          i \in { k \in 1..Len(svcs) : svcs[k].id \in exp } }

\* measure: every service and every span row is mounted after a commit
measure(svcs, exp, z, pos) ==
  LET scaleFactor == IF z = 0 THEN 100 ELSE z
      mspans == measuredSpans(svcs, exp)
      keyOf(ij) == makeSpanKey(svcs[ij[1]].id, svcs[ij[1]].spans[ij[2]].id)
      \* a later service or span of the same key overwrites an earlier one
      lastWith(k) == CHOOSE ij \in mspans :
                       /\ keyOf(ij) = k
                       /\ \A q \in mspans : keyOf(q) = k =>
                            \/ q[1] < ij[1]
                            \/ (q[1] = ij[1] /\ q[2] <= ij[2])
  IN [services |->
        [id \in serviceIds(svcs) |->
           serviceBoxOf(serviceRect(pos, z, id), scaleFactor)],
      spans |->
        [k \in { keyOf(ij) : ij \in mspans } |->
           LET ij == lastWith(k)
           IN spanBoxOf(spanRect(pos, z, svcs[ij[1]].id, ij[2]), scaleFactor)],
      viewport |-> [width |-> container.width \div scaleFactor,
                    height |-> container.height \div scaleFactor]]

\* the largest member of a set of numbers that is not empty
MaxOfSet(S) == CHOOSE m \in S : \A n \in S : n <= m

\* layoutBounds: the size of the canvas, in px before the scale, once a
\* measurement has stored the viewport
layoutBounds(pos, viewport) ==
  IF DOMAIN pos = {}
  THEN [width |-> viewport.width, height |-> viewport.height]
  ELSE LET maxX == MaxOfSet({ pos[id].x : id \in DOMAIN pos })
           maxY == MaxOfSet({ pos[id].y : id \in DOMAIN pos })
       IN [width |-> Max2(viewport.width,
                          maxX + NODE_WIDTH + CANVAS_PADDING),
           height |-> Max2(viewport.height,
                           maxY + NODE_HEIGHT + CANVAS_PADDING)]

\* how far the container c scrolls: what the scaled canvas exceeds it by
scrollRange(c, z, pos) ==
  LET scaleFactor == IF z = 0 THEN 100 ELSE z
      bounds == layoutBounds(pos, [width |-> c.width \div scaleFactor,
                                   height |-> c.height \div scaleFactor])
  IN [left |-> Max2(0, bounds.width * z - c.width),
      top |-> Max2(0, bounds.height * z - c.height)]

\* the browser keeps the scroll offsets inside the range
clampScroll(c, z, pos) ==
  [c EXCEPT !.scrollLeft = Min2(@, scrollRange(c, z, pos).left),
            !.scrollTop = Min2(@, scrollRange(c, z, pos).top)]

\* setGeometry({...}): the argument is a new object literal, never the
\* previous snapshot object, so React replaces the state and renders again
setGeometry(prev, next) ==
  [replaced |-> TRUE, same |-> next = prev]

\* before the first measurement
NotPublished == [replaced |-> FALSE, same |-> FALSE]

\* the listeners the layout effect of a variant registers: the variant with
\* zoom and drag listens to the container's scroll, the basic one does not
subscribeKinds(v) ==
  IF v = "drag" THEN {"observer", "scroll", "resize"}
  ELSE {"observer", "resize"}

\* the listeners the cleanup of the layout effect removes
cleanupKinds(v) ==
  IF v = "drag" THEN {"observer", "scroll", "resize"}
  ELSE {"observer", "resize"}

\* the listeners left when the cleanup of the current effect instance has run;
\* one it forgot would stay behind as a stale listener
cleanup(eff, v) ==
  { <<l[1], "stale">> :
      l \in { m \in eff.subs : ~(m[2] = "current" /\ m[1] \in cleanupKinds(v)) } }

\* a run of the layout effect: the cleanup of the previous instance, then the
\* new instance's subscriptions; observe() makes the ResizeObserver report
\* the container's size once
runEffect(eff, v) ==
  [eff EXCEPT
     !.subs = cleanup(eff, v) \cup { <<k, "current">> : k \in subscribeKinds(v) },
     !.observerPending = TRUE]

\* the dependency list of the layout effect (a variant whose list named
\* geometry would measure again after every measurement it publishes)
layoutEffectDeps_withGeometry(v) ==
  {"services", "expanded", "zoom", "positions", "geometry"}

\* the dependency list of the layout effect
layoutEffectDeps(v) ==
  IF v = "drag" THEN {"services", "expanded", "zoom", "positions"}
  ELSE {"services", "expanded"}

\* the render that follows a setGeometry runs the layout effect again when
\* geometry is one of its dependencies and the state was replaced
rerunsOnPublish(v, pub) == "geometry" \in layoutEffectDeps(v) /\ pub.replaced

\* after the first render: no effect has run yet
initialEffect == [mounted |-> TRUE, subs |-> {}, observerPending |-> FALSE,
                  reconcilePending |-> FALSE]

----------------------------------------------------------------------------
(* Connector Builder. *)

\* (serviceEdges with every id built from the endpoints)
RECURSIVE serviceEdgesFrom_noExplicitId(_, _)
serviceEdgesFrom_noExplicitId(es, geomServices) ==
  IF es = <<>> THEN <<>>
  ELSE LET edge == es[1]
           rest == serviceEdgesFrom_noExplicitId(Tail(es), geomServices)
       IN IF edge.from \notin DOMAIN geomServices
             \/ edge.to \notin DOMAIN geomServices
          THEN rest
          ELSE LET from == geomServices[edge.from]
                   to == geomServices[edge.to]
               IN <<[id |-> edge.from \o "->" \o edge.to,
                     path |-> buildCurvePath([x |-> from.right, y |-> from.centerY],
                                             [x |-> to.left, y |-> to.centerY]),
                     label |-> IF edge.label = undefined
                               THEN edge.from \o " to " \o edge.to
                               ELSE edge.label]>> \o rest

\* (service edges keyed by their place in the edge list)
RECURSIVE serviceEdgesFrom_indexKey(_, _)
serviceEdgesFrom_indexKey(es, geomServices) ==
  IF es = <<>> THEN <<>>
  ELSE LET edge == es[1]
           rest == serviceEdgesFrom_indexKey(Tail(es), geomServices)
       IN IF edge.from \notin DOMAIN geomServices
             \/ edge.to \notin DOMAIN geomServices
          THEN rest
          ELSE LET from == geomServices[edge.from]
                   to == geomServices[edge.to]
               IN <<[id |-> "edge-" \o ToString(Len(es)),
                     path |-> buildCurvePath([x |-> from.right, y |-> from.centerY],
                                             [x |-> to.left, y |-> to.centerY]),
                     label |-> IF edge.label = undefined
                               THEN edge.from \o " to " \o edge.to
                               ELSE edge.label]>> \o rest

RECURSIVE serviceEdgesFrom(_, _)
serviceEdgesFrom(es, geomServices) ==
  IF es = <<>> THEN <<>>
  ELSE LET edge == es[1]
           rest == serviceEdgesFrom(Tail(es), geomServices)
       IN IF edge.from \notin DOMAIN geomServices
             \/ edge.to \notin DOMAIN geomServices
          THEN rest
          ELSE LET from == geomServices[edge.from]
                   to == geomServices[edge.to]
               IN <<[id |-> IF edge.id = undefined
                            THEN edge.from \o "->" \o edge.to ELSE edge.id,
                     path |-> buildCurvePath([x |-> from.right, y |-> from.centerY],
                                             [x |-> to.left, y |-> to.centerY]),
                     label |-> IF edge.label = undefined
                               THEN edge.from \o " to " \o edge.to
                               ELSE edge.label]>> \o rest

serviceEdges(es, geom) == serviceEdgesFrom(es, geom.services)

\* (an added set that outlives the build: it still holds the ids of the
\* build before)
keptAccumulator ==
  [added |-> { hist.spans[i].id : i \in 1..Len(hist.spans) },
   connectors |-> <<>>]

\* const connectors = []; const added = new Set(), made by each run of the
\* useMemo callback
freshAccumulator == [added |-> {}, connectors |-> <<>>]

\* (a pushConnector without the added set)
pushConnector_always(st, id, srcLabel, start, end) ==
  [added |-> st.added,
   connectors |-> Append(st.connectors,
                         [id |-> id, sourceLabel |-> srcLabel,
                          path |-> buildCurvePath(start, end)])]

\* st is the pair of the connectors array and the added set
pushConnector(st, id, srcLabel, start, end) ==
  IF id \in st.added THEN st
  ELSE [added |-> st.added \cup {id},
        connectors |-> Append(st.connectors,
                              [id |-> id, sourceLabel |-> srcLabel,
                               path |-> buildCurvePath(start, end)])]

\* the (service, span) pairs in the order of the nested forEach
RECURSIVE spanPairs(_)
spanPairs(svcs) ==
  IF svcs = <<>> THEN <<>>
  ELSE [j \in 1..Len(svcs[1].spans) |-> [svc |-> svcs[1], span |-> svcs[1].spans[j]]]
       \o spanPairs(Tail(svcs))

\* (an outgoing pass that does not look the target service up)
outgoingStep_noTargetCheck(st, svc, span, exp, geom) ==
  LET key == makeSpanKey(svc.id, span.id)
      spanBox == geom.spans[key]
  IN IF svc.id \notin exp \/ key \notin DOMAIN geom.spans THEN st
     ELSE IF ~Falsy(span.outboundServiceId)
       THEN pushConnector(st, key \o "->" \o span.outboundServiceId,
                          span.label,
                          [x |-> spanBox.right + 16, y |-> spanBox.centerY],
                          [x |-> spanBox.left - 16, y |-> spanBox.centerY])
     ELSE st

\* (an outgoing pass in which a well-formed reference that does not resolve
\* ends the span's turn)
outgoingStep_noFallback(st, svc, span, exp, geom) ==
  LET key == makeSpanKey(svc.id, span.id)
      parts == split(span.outboundSpanRef)
      targetKey == makeSpanKey(parts[1], parts[2])
      spanBox == geom.spans[key]
  IN IF svc.id \notin exp THEN st
     ELSE IF key \notin DOMAIN geom.spans THEN st
     ELSE IF span.outboundSpanRef # <<>> /\ Len(parts) = 2
       THEN IF targetKey \in DOMAIN geom.spans
            THEN pushConnector(st, key \o "->" \o Join(span.outboundSpanRef),
                               span.label,
                               [x |-> spanBox.right + 16, y |-> spanBox.centerY],
                               [x |-> geom.spans[targetKey].left - 12,
                                y |-> geom.spans[targetKey].centerY])
            ELSE st
     ELSE IF /\ ~Falsy(span.outboundServiceId)
             /\ span.outboundServiceId \in DOMAIN geom.services
       THEN pushConnector(st, key \o "->" \o span.outboundServiceId,
                          span.label,
                          [x |-> spanBox.right + 16, y |-> spanBox.centerY],
                          [x |-> geom.services[span.outboundServiceId].left - 16,
                           y |-> geom.services[span.outboundServiceId].centerY])
     ELSE st

\* (an outgoing pass that takes the first two parts of any longer reference)
outgoingStep_firstTwoParts(st, svc, span, exp, geom) ==
  LET key == makeSpanKey(svc.id, span.id)
      parts == split(span.outboundSpanRef)
      targetKey == makeSpanKey(parts[1], parts[2])
      spanBox == geom.spans[key]
  IN IF svc.id \notin exp THEN st
     ELSE IF key \notin DOMAIN geom.spans THEN st
     ELSE IF /\ span.outboundSpanRef # <<>>
             /\ Len(parts) >= 2
             /\ targetKey \in DOMAIN geom.spans
       THEN pushConnector(st, key \o "->" \o Join(span.outboundSpanRef),
                          span.label,
                          [x |-> spanBox.right + 16, y |-> spanBox.centerY],
                          [x |-> geom.spans[targetKey].left - 12,
                           y |-> geom.spans[targetKey].centerY])
     ELSE IF /\ ~Falsy(span.outboundServiceId)
             /\ span.outboundServiceId \in DOMAIN geom.services
       THEN pushConnector(st, key \o "->" \o span.outboundServiceId,
                          span.label,
                          [x |-> spanBox.right + 16, y |-> spanBox.centerY],
                          [x |-> geom.services[span.outboundServiceId].left - 16,
                           y |-> geom.services[span.outboundServiceId].centerY])
     ELSE st

\* (an outgoing pass without the check of the expanded set)
outgoingStep_noExpandedCheck(st, svc, span, exp, geom) ==
  LET key == makeSpanKey(svc.id, span.id)
      parts == split(span.outboundSpanRef)
      targetKey == makeSpanKey(parts[1], parts[2])
      spanBox == geom.spans[key]
  IN IF key \notin DOMAIN geom.spans THEN st
     ELSE IF /\ span.outboundSpanRef # <<>>
             /\ Len(parts) = 2
             /\ targetKey \in DOMAIN geom.spans
       THEN pushConnector(st, key \o "->" \o Join(span.outboundSpanRef),
                          span.label,
                          [x |-> spanBox.right + 16, y |-> spanBox.centerY],
                          [x |-> geom.spans[targetKey].left - 12,
                           y |-> geom.spans[targetKey].centerY])
     ELSE IF /\ ~Falsy(span.outboundServiceId)
             /\ span.outboundServiceId \in DOMAIN geom.services
       THEN pushConnector(st, key \o "->" \o span.outboundServiceId,
                          span.label,
                          [x |-> spanBox.right + 16, y |-> spanBox.centerY],
                          [x |-> geom.services[span.outboundServiceId].left - 16,
                           y |-> geom.services[span.outboundServiceId].centerY])
     ELSE st

\* 1) outgoing connectors from unfolded spans, the body of the inner forEach
outgoingStep(st, svc, span, exp, geom) ==
  LET key == makeSpanKey(svc.id, span.id)
      parts == split(span.outboundSpanRef)
      targetKey == makeSpanKey(parts[1], parts[2])
      spanBox == geom.spans[key]
  IN IF svc.id \notin exp THEN st
     ELSE IF key \notin DOMAIN geom.spans THEN st
     ELSE IF /\ span.outboundSpanRef # <<>>
             /\ Len(parts) = 2
             /\ targetKey \in DOMAIN geom.spans
       THEN pushConnector(st, key \o "->" \o Join(span.outboundSpanRef),
                          span.label,
                          [x |-> spanBox.right + 16, y |-> spanBox.centerY],
                          [x |-> geom.spans[targetKey].left - 12,
                           y |-> geom.spans[targetKey].centerY])
     ELSE IF /\ ~Falsy(span.outboundServiceId)
             /\ span.outboundServiceId \in DOMAIN geom.services
       THEN pushConnector(st, key \o "->" \o span.outboundServiceId,
                          span.label,
                          [x |-> spanBox.right + 16, y |-> spanBox.centerY],
                          [x |-> geom.services[span.outboundServiceId].left - 16,
                           y |-> geom.services[span.outboundServiceId].centerY])
     ELSE st

\* 2a) incoming connectors into unfolded spans, the body of the inner forEach
\* (an incoming pass that draws only from the box of the origin span)
incomingStep_fromSpanOnly(st, srcSvc, srcSpan, exp, geom) ==
  LET parts == split(srcSpan.outboundSpanRef)
      targetKey == makeSpanKey(parts[1], parts[2])
      srcKey == makeSpanKey(srcSvc.id, srcSpan.id)
  IN IF srcSpan.outboundSpanRef = <<>> THEN st
     ELSE IF Len(parts) # 2 THEN st
     ELSE IF targetKey \notin DOMAIN geom.spans THEN st
     ELSE IF parts[1] \notin exp THEN st
     ELSE IF srcKey \notin DOMAIN geom.spans THEN st
     ELSE pushConnector(st, srcKey \o "->" \o targetKey \o ":IN",
                        srcSpan.label,
                        [x |-> geom.spans[srcKey].right + 16,
                         y |-> geom.spans[srcKey].centerY],
                        [x |-> geom.spans[targetKey].left - 12,
                         y |-> geom.spans[targetKey].centerY])

incomingStep(st, srcSvc, srcSpan, exp, geom) ==
  LET parts == split(srcSpan.outboundSpanRef)
      targetKey == makeSpanKey(parts[1], parts[2])
      srcKey == makeSpanKey(srcSvc.id, srcSpan.id)
  IN IF srcSpan.outboundSpanRef = <<>> THEN st
     ELSE IF Len(parts) # 2 THEN st
     ELSE IF targetKey \notin DOMAIN geom.spans THEN st
     ELSE IF parts[1] \notin exp THEN st
     ELSE IF srcKey \notin DOMAIN geom.spans /\ srcSvc.id \notin DOMAIN geom.services
       THEN st
     ELSE LET srcBox == IF srcKey \in DOMAIN geom.spans
                        THEN geom.spans[srcKey] ELSE geom.services[srcSvc.id]
              targetBox == geom.spans[targetKey]
          IN pushConnector(st, srcKey \o "->" \o targetKey \o ":IN",
                           srcSpan.label,
                           [x |-> srcBox.right + 16, y |-> srcBox.centerY],
                           [x |-> targetBox.left - 12, y |-> targetBox.centerY])

\* 2b) a service edge into the unfolded spans of its target, the body of
\* edges.forEach
RECURSIVE fanOutSpans(_, _, _, _, _)
fanOutSpans(st, edge, sourceBox, tspans, geom) ==
  IF tspans = <<>> THEN st
  ELSE LET tspan == tspans[1]
           key == makeSpanKey(edge.to, tspan.id)
           next ==
             IF key \notin DOMAIN geom.spans THEN st
             ELSE pushConnector(st, edge.from \o "->" \o edge.to \o ":" \o tspan.id,
                                IF edge.label = undefined
                                THEN edge.from \o " -> " \o edge.to
                                ELSE edge.label,
                                [x |-> sourceBox.right, y |-> sourceBox.centerY],
                                [x |-> geom.spans[key].left - 12,
                                 y |-> geom.spans[key].centerY])
       IN fanOutSpans(next, edge, sourceBox, Tail(tspans), geom)

\* (a fan-out that checks the expansion of the edge's source)
fanOutStep_sourceExpanded(st, edge, svcs, exp, geom) ==
  LET t == findService(svcs, edge.to)
  IN IF t = 0 \/ edge.from \notin exp THEN st
     ELSE IF edge.from \notin DOMAIN geom.services THEN st
     ELSE fanOutSpans(st, edge, geom.services[edge.from], svcs[t].spans, geom)

\* (a fan-out into the spans of any target, expanded or not)
fanOutStep_noExpandedCheck(st, edge, svcs, exp, geom) ==
  LET t == findService(svcs, edge.to)
  IN IF t = 0 THEN st
     ELSE IF edge.from \notin DOMAIN geom.services THEN st
     ELSE fanOutSpans(st, edge, geom.services[edge.from], svcs[t].spans, geom)

fanOutStep(st, edge, svcs, exp, geom) ==
  LET t == findService(svcs, edge.to)
  IN IF t = 0 \/ edge.to \notin exp THEN st
     ELSE IF edge.from \notin DOMAIN geom.services THEN st
     ELSE fanOutSpans(st, edge, geom.services[edge.from], svcs[t].spans, geom)

RECURSIVE outgoingAll(_, _, _, _)
outgoingAll(st, pairs, exp, geom) ==
  IF pairs = <<>> THEN st
  ELSE outgoingAll(outgoingStep(st, pairs[1].svc, pairs[1].span, exp, geom),
                   Tail(pairs), exp, geom)

RECURSIVE incomingAll(_, _, _, _)
incomingAll(st, pairs, exp, geom) ==
  IF pairs = <<>> THEN st
  ELSE incomingAll(incomingStep(st, pairs[1].svc, pairs[1].span, exp, geom),
                   Tail(pairs), exp, geom)

RECURSIVE fanOutAll(_, _, _, _, _)
fanOutAll(st, es, svcs, exp, geom) ==
  IF es = <<>> THEN st
  ELSE fanOutAll(fanOutStep(st, es[1], svcs, exp, geom), Tail(es), svcs, exp, geom)

\* spanConnectors of the span-reference variant (src/unnamed/part_000)
spanConnectors(svcs, es, exp, geom) ==
  LET s0 == freshAccumulator
      s1 == outgoingAll(s0, spanPairs(svcs), exp, geom)
      s2 == incomingAll(s1, spanPairs(svcs), exp, geom)
      s3 == fanOutAll(s2, es, svcs, exp, geom)
  IN s3.connectors

\* spanConnectors of the free-drag variant (src/src/components/TraceGraph.tsx):
\* the body of the inner forEach
basicStep(acc, svc, span, exp, geom) ==
  LET key == makeSpanKey(svc.id, span.id)
  IN IF svc.id \notin exp THEN acc
     ELSE IF Falsy(span.outboundServiceId) THEN acc
     ELSE IF key \notin DOMAIN geom.spans
             \/ span.outboundServiceId \notin DOMAIN geom.services
       THEN acc
     ELSE Append(acc,
            [id |-> key \o "->" \o span.outboundServiceId,
             sourceLabel |-> span.label,
             path |-> buildCurvePath(
                        [x |-> geom.spans[key].right + 16,
                         y |-> geom.spans[key].centerY],
                        [x |-> geom.services[span.outboundServiceId].left - 16,
                         y |-> geom.services[span.outboundServiceId].centerY])])

RECURSIVE basicAll(_, _, _, _)
basicAll(acc, pairs, exp, geom) ==
  IF pairs = <<>> THEN acc
  ELSE basicAll(basicStep(acc, pairs[1].svc, pairs[1].span, exp, geom),
                Tail(pairs), exp, geom)

spanConnectorsBasic(svcs, exp, geom) == basicAll(<<>>, spanPairs(svcs), exp, geom)

\* what one render puts into the svg: the connectors of the current state
renderedEdges == serviceEdges(edges, geometry)
renderedSpans == spanConnectors(services, edges, expanded, geometry)
renderedBasic == spanConnectorsBasic(services, expanded, geometry)

Range(s) == { s[i] : i \in 1..Len(s) }
IdsOf(s) == { s[i].id : i \in 1..Len(s) }
CountId(s, id) == Cardinality({ i \in 1..Len(s) : s[i].id = id })

----------------------------------------------------------------------------
(* The inputs of the connector specification: services A and B, A with the *)
(* span S1, B with up to MaxBSpans spans S2, S3, ...; "Z" and "S9" name a  *)
(* service and a span that do not exist.                                   *)

Span(id, svc, ref) ==
  [id |-> id, label |-> "span " \o id,
   outboundServiceId |-> svc, outboundSpanRef |-> ref]

OutboundServiceChoices == {undefined, "B", "Z"}

OutboundSpanRefChoices ==
  { <<>>,
    <<"B", ":", "S2">>,             \* resolves when B has the span S2
    <<"B", ":", "S9">>,             \* no such span
    <<"Z", ":", "S1">>,             \* no such service
    <<"B">>,                        \* malformed: one part
    <<"B", ":", "S2", ":", "x">> }  \* malformed: three parts

\* the spans of B: k plain spans, the first of which may point back to A
BSpanLists ==
  { [j \in 1..k |->
       IF j = 1 THEN Span("S2", v[1], v[2])
       ELSE Span("S" \o ToString(j + 1), undefined, <<>>)] :
    k \in 0..MaxBSpans,
    v \in { <<undefined, <<>> >>, <<"A", <<>> >>, <<undefined, <<"A", ":", "S1">> >> } }

ConnServices ==
  { << [id |-> "A", label |-> "Service A", spans |-> <<Span("S1", o, r)>>],
       [id |-> "B", label |-> "Service B", spans |-> bs] >> :
    o \in OutboundServiceChoices, r \in OutboundSpanRefChoices, bs \in BSpanLists }

Edge(id, from, to) == [id |-> id, from |-> from, to |-> to, label |-> undefined]

EdgeChoices ==
  { Edge(undefined, "A", "B"), Edge(undefined, "B", "A"),
    Edge("e1", "A", "B"), Edge(undefined, "Z", "B") }

ConnEdges == UNION { [1..n -> EdgeChoices] : n \in 0..MaxEdges }

----------------------------------------------------------------------------
(* Interaction Controller: expand/collapse, and the layout effect. *)

\* (a toggle that only ever adds)
toggleService_addOnly(exp, serviceId) == exp \cup {serviceId}

toggleService(exp, serviceId) ==
  IF serviceId \in exp THEN exp \ {serviceId} ELSE exp \cup {serviceId}

\* the same on the Set's insertion order: delete takes the id out, add puts it
\* at the end; Array.from(next) lists the ids in this order
toggleOrder(order, serviceId) ==
  IF \E i \in 1..Len(order) : order[i] = serviceId
  THEN SelectSeq(order, LAMBDA id : id # serviceId)
  ELSE Append(order, serviceId)

RECURSIVE setOrder(_, _)
\* new Set(defaultExpandedIds): the ids in their first order, repeats dropped
setOrder(ids, acc) ==
  IF ids = <<>> THEN acc
  ELSE setOrder(Tail(ids),
                IF \E i \in 1..Len(acc) : acc[i] = ids[1]
                THEN acc ELSE Append(acc, ids[1]))

\* onExpandedChange has not been called
NotNotified == <<Null>>

NoHist == [kind |-> "none", id |-> Null, edges |-> <<>>, spans |-> <<>>,
           basic |-> <<>>]

\* dragState.current = null
NoDrag == [id |-> Null, pointerId |-> 0, startX |-> 0, startY |-> 0,
           originX |-> 0, originY |-> 0, moved |-> FALSE]

\* no gesture has ended yet
NoDone == [id |-> Null, origin |-> [x |-> 0, y |-> 0], zoom |-> 0, dx |-> 0,
           dy |-> 0, steady |-> FALSE, alone |-> FALSE, moved |-> FALSE,
           final |-> [x |-> 0, y |-> 0], othersKept |-> FALSE]

\* the pointers' gestures as the user makes them: count is the number of
\* pointer-downs so far, active the gestures of the pointers that are down,
\* done the last gesture that ended, clickDue the node whose drag has just
\* ended (no click on it, no animation frame and no pointer-down since),
\* suppressed the node whose last click was swallowed, overlapped whether two
\* pointers were ever down at once
NoGest == [count |-> 0, active |-> <<>>, done |-> NoDone, clickDue |-> Null,
           suppressed |-> Null, overlapped |-> FALSE]

\* the refs and the histories after the first render
IdleRefs ==
  /\ dragState = NoDrag
  /\ recentlyDraggedRef = Null
  /\ rafCallbacks = <<>>
  /\ memo = <<>>
  /\ levelBuckets = <<>>
  /\ cursor = 0
  /\ rangeError = FALSE
  /\ container = initialContainer
  /\ effect = initialEffect
  /\ published = NotPublished
  /\ notified = NotNotified
  /\ hist = NoHist
  /\ gest = NoGest

\* useState(0.9)
initialZoom == 90

\* the variant with zoom and drag after the first render
IdleParts ==
  /\ zoom = initialZoom
  /\ variant = "drag"
  /\ IdleRefs

\* the defaultExpandedIds that give the expanded set exp: its ids in the
\* order of the services
defaultExpandedIds(svcs, exp) ==
  SelectSeq([i \in 1..Len(svcs) |-> svcs[i].id], LAMBDA id : id \in exp)

Init ==
  /\ services \in ConnServices
  /\ edges \in ConnEdges
  /\ expanded \in SUBSET serviceIds(services)
  /\ expandedOrder = setOrder(defaultExpandedIds(services, expanded), <<>>)
  /\ geometry = initialGeometry
  /\ layoutPending = TRUE
  /\ positions = buildInitialPositions(services, edges)
  /\ IdleParts

\* (a measurement left to a passive effect: the commit is painted with the
\* geometry of the state before)
Measure_afterPaint ==
  /\ layoutPending
  /\ layoutPending' = FALSE
  /\ effect' = runEffect(effect, variant)
  /\ UNCHANGED <<propVars, expanded, zoom, positions, geometry, published,
                 domVars, dragVars, levelVars, toggleVars, hist, gest>>

\* useLayoutEffect: measure() and setGeometry, run in the commit that follows
\* a change of services, expanded, zoom or positions, before any later event
Measure ==
  /\ layoutPending
  /\ UNCHANGED <<propVars, expanded, zoom, positions, variant>>
  /\ container' = clampScroll(container, zoom, positions)
  \* measured in the container as the commit leaves it
  /\ geometry' = IF container' = container
                 THEN measure(services, expanded, zoom, positions)
                 ELSE measure(services, expanded, zoom, positions)'
  /\ published' = setGeometry(geometry, geometry')
  /\ effect' = runEffect(effect, variant)
  /\ layoutPending' = rerunsOnPublish(variant, published')
  /\ UNCHANGED <<dragVars, levelVars, toggleVars, hist, gest>>

\* a click on the button of a service: handleNodeClickCapture, then (unless the
\* capture handler stopped the event) onClick = toggleService
Click(serviceId) ==
  /\ ~layoutPending
  /\ serviceId \in serviceIds(services)
  /\ IF recentlyDraggedRef = serviceId
     THEN /\ recentlyDraggedRef' = Null
          /\ UNCHANGED <<expanded, layoutPending, hist, toggleVars>>
     ELSE /\ expanded' = toggleService(expanded, serviceId)
          /\ expandedOrder' = toggleOrder(expandedOrder, serviceId)
          /\ notified' = expandedOrder'
          /\ layoutPending' = TRUE
          /\ hist' = [kind |-> IF serviceId \in expanded
                               THEN "collapse" ELSE "expand",
                      id |-> serviceId,
                      edges |-> renderedEdges,
                      spans |-> renderedSpans,
                      basic |-> renderedBasic]
          /\ UNCHANGED recentlyDraggedRef
  /\ gest' = [gest EXCEPT
                !.clickDue = IF @ = serviceId THEN Null ELSE @,
                !.suppressed = IF recentlyDraggedRef = serviceId
                               THEN serviceId
                               ELSE IF @ = serviceId THEN Null ELSE @]
  /\ UNCHANGED <<propVars, geometry, zoom, positions, dragState,
                 rafCallbacks, levelVars, domVars, effect, published>>

Next ==
  \/ Measure
  \/ \E serviceId \in serviceIds(services) : Click(serviceId)

Spec == Init /\ [][Next]_vars

----------------------------------------------------------------------------
(* The drag and zoom handlers.  The pointers are 1 and 2 (two fingers);    *)
(* the pointer coordinates are multiples of 900 (a pointer that is down    *)
(* can cross the whole screen) and the zoom values 0.9 and 1, so that      *)
(* every division by the zoom is exact.                                    *)

Pointers == {1, 2}
Points == { <<0, 0>>, <<1800, 900>> }
SliderValues == {1000}

DragServices ==
  << [id |-> "A", label |-> "Service A",
      spans |-> <<Span("S1", "B", <<>>)>>],
     [id |-> "B", label |-> "Service B",
      spans |-> <<Span("S2", undefined, <<>>)>>] >>

InitDrag ==
  /\ services = DragServices
  /\ edges = <<Edge(undefined, "A", "B")>>
  /\ expanded = {}
  /\ expandedOrder = <<>>
  /\ geometry = initialGeometry
  /\ layoutPending = TRUE
  /\ positions = buildInitialPositions(services, edges)
  /\ IdleParts

\* Number(value.toFixed(2)), the value in 1/1000: rounded to 1/100
toFixed2(value) == (value + 5) \div 10

\* clampZoom as it would be without Math.min and Math.max
clampZoom_unclamped(value) == toFixed2(value)

clampZoom(value) == Min2(ZOOM_MAX, Max2(ZOOM_MIN, toFixed2(value)))

\* x / zoom for a number of pixels x
byZoom(x, z) == (x * 100) \div z

\* the slider's onChange
ZoomSlider(value) ==
  /\ ~layoutPending
  /\ clampZoom(value) # zoom
  /\ zoom' = clampZoom(value)
  /\ layoutPending' = TRUE
  /\ gest' = [gest EXCEPT
                !.active = [q \in DOMAIN @ |-> [@[q] EXCEPT !.steady = FALSE]]]
  /\ hist' = NoHist
  /\ UNCHANGED <<propVars, expanded, geometry, positions, dragVars, levelVars>>
  /\ UNCHANGED quietVars

\* onPointerDown of the node of serviceId, by a pointer that was up
PointerDown(serviceId, pointerId, pt) ==
  /\ ~layoutPending
  /\ pointerId \notin DOMAIN gest.active
  /\ gest.count < MaxGestures
  /\ LET position == IF serviceId \in DOMAIN positions
                     THEN positions[serviceId] ELSE [x |-> 0, y |-> 0]
     IN /\ dragState' = [id |-> serviceId, pointerId |-> pointerId,
                         startX |-> pt[1], startY |-> pt[2],
                         originX |-> position.x, originY |-> position.y,
                         moved |-> FALSE]
        /\ gest' = [gest EXCEPT
                      !.count = @ + 1,
                      !.clickDue = Null,
                      !.overlapped = @ \/ DOMAIN gest.active # {},
                      !.active =
                        (pointerId :>
                           [id |-> serviceId, start |-> pt, last |-> pt,
                            origin |-> position, zoom |-> zoom,
                            othersKept |-> TRUE, steady |-> TRUE,
                            moved |-> FALSE, alone |-> DOMAIN @ = {}])
                        @@ [q \in DOMAIN @ |-> [@[q] EXCEPT !.alone = FALSE]]]
  /\ hist' = NoHist
  /\ UNCHANGED <<propVars, expanded, geometry, layoutPending, zoom, positions,
                 recentlyDraggedRef, rafCallbacks, levelVars>>
  /\ UNCHANGED quietVars

\* (a handlePointerMove without the early return: with no record it moves the
\* node the pointer went down on)
PointerMove_noRecordCheck(pointerId, pt) ==
  /\ ~layoutPending
  /\ pointerId \in DOMAIN gest.active
  /\ LET g == gest.active[pointerId]
     IN /\ dragState' = IF dragState = NoDrag THEN dragState
                        ELSE [dragState EXCEPT !.moved = TRUE]
        /\ positions' =
             (g.id :> [x |-> g.origin.x + byZoom(pt[1] - g.start[1], zoom),
                       y |-> g.origin.y + byZoom(pt[2] - g.start[2], zoom)])
             @@ positions
  /\ hist' = NoHist
  /\ layoutPending' = TRUE
  /\ gest' = [gest EXCEPT
                !.active =
                  [q \in DOMAIN @ |->
                     IF q = pointerId
                     THEN [@[q] EXCEPT !.last = pt, !.moved = TRUE]
                     ELSE @[q]]]
  /\ UNCHANGED <<propVars, expanded, geometry, zoom, recentlyDraggedRef,
                 rafCallbacks, levelVars>>
  /\ UNCHANGED quietVars

\* onPointerMove, by a pointer that is down
PointerMove(pointerId, pt) ==
  /\ ~layoutPending
  /\ pointerId \in DOMAIN gest.active
  /\ IF dragState = NoDrag \/ dragState.pointerId # pointerId
     THEN UNCHANGED <<dragState, positions, layoutPending, hist>>
     ELSE /\ dragState' = [dragState EXCEPT !.moved = TRUE]
          /\ hist' = NoHist
          /\ positions' =
               (dragState.id :>
                  [x |-> dragState.originX
                           + byZoom(pt[1] - dragState.startX, zoom),
                   y |-> dragState.originY
                           + byZoom(pt[2] - dragState.startY, zoom)])
               @@ positions
          /\ layoutPending' = TRUE
  /\ gest' = [gest EXCEPT
                !.active =
                  [q \in DOMAIN @ |->
                     IF q = pointerId
                     THEN [@[q] EXCEPT !.last = pt, !.moved = TRUE]
                     ELSE [@[q] EXCEPT !.othersKept =
                             /\ @
                             /\ \A id \in DOMAIN positions \ {gest.active[q].id} :
                                  positions'[id] = positions[id]]]]
  /\ UNCHANGED <<propVars, expanded, geometry, zoom, recentlyDraggedRef,
                 rafCallbacks, levelVars>>
  /\ UNCHANGED quietVars

\* (a handlePointerEnd that sets the flag whether the pointer moved or not)
PointerEnd_alwaysFlags(pointerId) ==
  /\ ~layoutPending
  /\ pointerId \in DOMAIN gest.active
  /\ LET g == gest.active[pointerId]
     IN gest' = [gest EXCEPT
                   !.active = [q \in DOMAIN @ \ {pointerId} |-> @[q]],
                   !.done = [id |-> g.id, origin |-> g.origin, zoom |-> g.zoom,
                             dx |-> g.last[1] - g.start[1],
                             dy |-> g.last[2] - g.start[2],
                             steady |-> g.steady, alone |-> g.alone,
                             moved |-> g.moved,
                             final |-> positionOf(positions, g.id),
                             othersKept |-> g.othersKept],
                   !.clickDue = IF g.moved /\ g.last # g.start THEN g.id ELSE @,
                   !.suppressed = IF g.moved /\ @ = g.id THEN Null ELSE @]
  /\ IF dragState = NoDrag \/ dragState.pointerId # pointerId
     THEN UNCHANGED <<dragState, recentlyDraggedRef, rafCallbacks>>
     ELSE /\ dragState' = NoDrag
          /\ recentlyDraggedRef' = dragState.id
          /\ rafCallbacks' = Append(rafCallbacks, dragState.id)
  /\ hist' = NoHist
  /\ UNCHANGED <<propVars, expanded, geometry, layoutPending, zoom, positions,
                 levelVars>>
  /\ UNCHANGED quietVars

\* onPointerUp and onPointerCancel, by a pointer that is down
PointerEnd(pointerId) ==
  /\ ~layoutPending
  /\ pointerId \in DOMAIN gest.active
  /\ LET g == gest.active[pointerId]
     IN gest' = [gest EXCEPT
                   !.active = [q \in DOMAIN @ \ {pointerId} |-> @[q]],
                   !.done = [id |-> g.id, origin |-> g.origin, zoom |-> g.zoom,
                             dx |-> g.last[1] - g.start[1],
                             dy |-> g.last[2] - g.start[2],
                             steady |-> g.steady, alone |-> g.alone,
                             moved |-> g.moved,
                             final |-> positionOf(positions, g.id),
                             othersKept |-> g.othersKept],
                   !.clickDue = IF g.moved /\ g.last # g.start THEN g.id ELSE @,
                   !.suppressed = IF g.moved /\ @ = g.id THEN Null ELSE @]
  /\ IF dragState = NoDrag \/ dragState.pointerId # pointerId
     THEN UNCHANGED <<dragState, recentlyDraggedRef, rafCallbacks>>
     ELSE /\ dragState' = NoDrag
          /\ IF dragState.moved
             THEN /\ recentlyDraggedRef' = dragState.id
                  /\ rafCallbacks' = Append(rafCallbacks, dragState.id)
             ELSE UNCHANGED <<recentlyDraggedRef, rafCallbacks>>
  /\ hist' = NoHist
  /\ UNCHANGED <<propVars, expanded, geometry, layoutPending, zoom, positions,
                 levelVars>>
  /\ UNCHANGED quietVars

RECURSIVE runCallbacks_clearsAny(_, _)
\* (frame callbacks that clear the flag without comparing it with their node)
runCallbacks_clearsAny(callbacks, ref) ==
  IF callbacks = <<>> THEN ref
  ELSE runCallbacks_clearsAny(Tail(callbacks), Null)

RECURSIVE runCallbacks(_, _)
\* the callbacks of handlePointerEnd, in the order of their requests
runCallbacks(callbacks, ref) ==
  IF callbacks = <<>> THEN ref
  ELSE runCallbacks(Tail(callbacks), IF ref = callbacks[1] THEN Null ELSE ref)

\* the next animation frame
AnimationFrame ==
  /\ ~layoutPending
  /\ rafCallbacks # <<>>
  /\ recentlyDraggedRef' = runCallbacks(rafCallbacks, recentlyDraggedRef)
  /\ rafCallbacks' = <<>>
  /\ gest' = [gest EXCEPT !.clickDue = Null]
  /\ hist' = NoHist
  /\ UNCHANGED <<propVars, expanded, geometry, layoutPending, zoom, positions,
                 dragState, levelVars>>
  /\ UNCHANGED quietVars

NextDrag ==
  \/ Measure
  \/ \E serviceId \in serviceIds(services) : Click(serviceId)
  \/ \E value \in SliderValues : ZoomSlider(value)
  \/ \E serviceId \in serviceIds(services), pointerId \in Pointers, pt \in Points :
       PointerDown(serviceId, pointerId, pt)
  \/ \E pointerId \in Pointers, pt \in Points : PointerMove(pointerId, pt)
  \/ \E pointerId \in Pointers : PointerEnd(pointerId)
  \/ AnimationFrame

SpecDrag == InitDrag /\ [][NextDrag]_vars

----------------------------------------------------------------------------
(* The life of the mounted component: zoom buttons, DOM events of the       *)
(* container and the window, a change of the services prop, unmount.        *)

\* some listener of the kind is registered
listens(kind) == \E l \in effect.subs : l[1] = kind

\* no commit and no passive effect is outstanding: the next event can come
Quiet == ~layoutPending /\ ~effect.reconcilePending

\* the zoom buttons: handleZoomDelta(-ZOOM_STEP) and handleZoomDelta(ZOOM_STEP),
\* each disabled at its end of the range
ZoomDelta(delta) ==
  /\ ~layoutPending
  /\ IF delta < 0 THEN zoom > ZOOM_MIN ELSE zoom < ZOOM_MAX
  /\ clampZoom((zoom + delta) * 10) # zoom
  /\ zoom' = clampZoom((zoom + delta) * 10)
  /\ layoutPending' = TRUE
  /\ hist' = NoHist
  /\ UNCHANGED <<propVars, expanded, geometry, positions, dragVars, levelVars,
                 quietVars, gest>>

\* the measure() a listener calls: it publishes, and no effect runs again
\* because geometry is no dependency of the layout effect
ListenerMeasures(kind) ==
  /\ UNCHANGED <<propVars, expanded, zoom, positions>>
  /\ IF listens(kind)
     THEN /\ geometry' = measure(services, expanded, zoom, positions)'
          /\ published' = setGeometry(geometry, geometry')
          /\ layoutPending' = rerunsOnPublish(variant, published')
     ELSE UNCHANGED <<geometry, published, layoutPending>>
  /\ hist' = NoHist
  /\ UNCHANGED <<dragVars, levelVars, variant, toggleVars, gest>>

\* the user scrolls the container
ContainerScroll(left, top) ==
  /\ ~layoutPending
  /\ <<left, top>> # <<container.scrollLeft, container.scrollTop>>
  /\ left <= scrollRange(container, zoom, positions).left
  /\ top <= scrollRange(container, zoom, positions).top
  /\ container' = [container EXCEPT !.scrollLeft = left, !.scrollTop = top]
  /\ UNCHANGED effect
  /\ ListenerMeasures("scroll")

\* the container gets another size: the ResizeObserver's callback
ContainerResize(width, height) ==
  /\ ~layoutPending
  /\ <<width, height>> # <<container.width, container.height>>
  /\ container' = clampScroll([container EXCEPT !.width = width,
                                                 !.height = height],
                              zoom, positions)
  /\ UNCHANGED effect
  /\ ListenerMeasures("observer")

\* a resize event of the window that leaves the container's size alone
WindowResize ==
  /\ ~layoutPending
  /\ UNCHANGED <<container, effect>>
  /\ ListenerMeasures("resize")

\* the first report of a ResizeObserver that has begun to observe
ObserverDeliver ==
  /\ ~layoutPending
  /\ effect.observerPending
  /\ effect' = [effect EXCEPT !.observerPending = FALSE]
  /\ UNCHANGED container
  /\ ListenerMeasures("observer")

\* unmount: the cleanup of the layout effect
Unmount ==
  /\ Quiet
  /\ effect.mounted
  /\ effect' = [mounted |-> FALSE, subs |-> cleanup(effect, variant),
                observerPending |-> FALSE, reconcilePending |-> FALSE]
  /\ hist' = NoHist
  /\ UNCHANGED <<propVars, expanded, geometry, layoutPending, zoom, positions,
                 dragVars, levelVars, domVars, published, toggleVars, gest>>

\* (a reconciliation that never deletes an entry)
reconcile_noPrune(prev, svcs, initialPositions) ==
  [id \in serviceIds(svcs) \cup DOMAIN prev |->
     IF id \in DOMAIN prev THEN prev[id]
     ELSE IF id \in DOMAIN initialPositions THEN initialPositions[id]
     ELSE [x |-> HORIZONTAL_PADDING, y |-> VERTICAL_PADDING]]

\* the setPositions updater of the effect on [services, initialPositions]
reconcile(prev, svcs, initialPositions) ==
  [id \in serviceIds(svcs) |->
     IF id \in DOMAIN prev THEN prev[id]
     ELSE IF id \in DOMAIN initialPositions THEN initialPositions[id]
     ELSE [x |-> HORIZONTAL_PADDING, y |-> VERTICAL_PADDING]]

\* the parent renders the component with another services prop
SetServices(svcs) ==
  /\ Quiet
  /\ effect.mounted
  /\ svcs # services
  /\ services' = svcs
  /\ layoutPending' = TRUE
  /\ effect' = [effect EXCEPT !.reconcilePending = TRUE]
  /\ hist' = NoHist
  /\ UNCHANGED <<edges, expanded, geometry, zoom, positions, dragVars,
                 levelVars, domVars, published, toggleVars, gest>>

\* the passive effect that follows the commit of new services
Reconcile ==
  /\ ~layoutPending
  /\ effect.reconcilePending
  /\ positions' = reconcile(positions, services,
                            buildInitialPositions(services, edges))
  /\ layoutPending' = (positions' # positions)
  /\ effect' = [effect EXCEPT !.reconcilePending = FALSE]
  /\ UNCHANGED <<propVars, expanded, geometry, zoom, dragVars, levelVars,
                 domVars, published, toggleVars, hist, gest>>

\* slider values, in 1/1000: below the range, off the grid and above the range
LifeSliderValues == {0, 1234, 2777}
ScrollOffsets == { <<0, 0>>, <<9000, 4500>> }
ContainerSizes == { <<180000, 90000>>, <<90000, 45000>> }

\* the services props the parent passes: both nodes, the first one alone
SmallNodeSets == { DragServices, <<DragServices[1]>> }

InitLife ==
  /\ services = DragServices
  /\ edges = <<Edge(undefined, "A", "B")>>
  /\ expanded = {}
  /\ expandedOrder = <<>>
  /\ geometry = initialGeometry
  /\ layoutPending = TRUE
  /\ positions = buildInitialPositions(services, edges)
  /\ variant \in {"drag", "base"}
  /\ zoom = IF variant = "drag" THEN initialZoom ELSE 100
  /\ IdleRefs

NextLife ==
  \/ Measure
  \/ Reconcile
  \/ Unmount
  \/ Quiet /\ effect.mounted /\ Click(DragServices[1].id)
  \/ Quiet /\ effect.mounted /\ variant = "drag" /\
       \E delta \in {ZOOM_STEP, -ZOOM_STEP} : ZoomDelta(delta)
  \/ Quiet /\ effect.mounted /\ variant = "drag" /\
       \E value \in LifeSliderValues : ZoomSlider(value)
  \/ \E svcs \in SmallNodeSets : SetServices(svcs)
  \/ Quiet /\ \E off \in ScrollOffsets : ContainerScroll(off[1], off[2])
  \/ Quiet /\ \E size \in ContainerSizes : ContainerResize(size[1], size[2])
  \/ Quiet /\ WindowResize
  \/ Quiet /\ ObserverDeliver

SpecLife == InitLife /\ [][NextLife]_vars

\* one pointer, the zoom slider, the toggle of the first node and the
\* services prop
NextPaint ==
  \/ Measure
  \/ Reconcile
  \/ Quiet /\ Click(DragServices[1].id)
  \/ Quiet /\ \E value \in SliderValues : ZoomSlider(value)
  \/ Quiet /\ \E serviceId \in serviceIds(services), pt \in Points :
       PointerDown(serviceId, 1, pt)
  \/ Quiet /\ \E pt \in Points : PointerMove(1, pt)
  \/ Quiet /\ PointerEnd(1)
  \/ \E svcs \in SmallNodeSets : SetServices(svcs)

SpecPaint == InitDrag /\ [][NextPaint]_vars

----------------------------------------------------------------------------
(* Properties of the drag handlers.                                        *)

\* a pointer event with the pointer id q
PointerEventOf(q) ==
  \/ \E serviceId \in serviceIds(services), pt \in Points :
       PointerDown(serviceId, q, pt)
  \/ \E pt \in Points : PointerMove(q, pt)
  \/ PointerEnd(q)

\* where the gesture that ended last should have left its node
DragTarget(g) == [x |-> g.origin.x + byZoom(g.dx, g.zoom),
                  y |-> g.origin.y + byZoom(g.dy, g.zoom)]

\* C8: a gesture on node X (pointer-down, pointer-moves with the total
\* displacement (dx, dy), pointer-up) at zoom z leaves the stored position of X
\* at its position at pointer-down plus (dx/z, dy/z), and the stored position
\* of every other node is unchanged throughout the gesture.
C8_DragFrame ==
  /\ \A p \in DOMAIN gest.active : gest.active[p].othersKept
  /\ (gest.done.id # Null /\ gest.done.steady) =>
       /\ gest.done.final = DragTarget(gest.done)
       /\ gest.done.othersKept

\* the same for a gesture during which no other pointer was down
DragFrameOfLoneGesture ==
  /\ \A p \in DOMAIN gest.active :
       gest.active[p].alone => gest.active[p].othersKept
  /\ (gest.done.id # Null /\ gest.done.steady /\ gest.done.alone) =>
       /\ gest.done.final = DragTarget(gest.done)
       /\ gest.done.othersKept

LoneGestureMoved ==
  /\ gest.done.id # Null /\ gest.done.steady /\ gest.done.alone
  /\ gest.done.dx # 0
  /\ gest.done.final # gest.done.origin

\* the stored position of a node lies inside the container, less the node's
\* measured size, all in the coordinates of the canvas
InsideContainer(id) ==
  LET box == geometry.services[id]
      p == positions[id]
  IN /\ 0 <= p.x
     /\ p.x <= geometry.viewport.width - (box.right - box.left)
     /\ 0 <= p.y
     /\ p.y <= geometry.viewport.height - (box.bottom - box.top)

\* C11: during and after a drag gesture the stored position of the dragged
\* node stays within the bounds of the visible container less the node's own
\* measured size, whatever coordinates the pointer-move events carry.
C11_DragClamped ==
  ~layoutPending =>
    /\ (dragState # NoDrag /\ dragState.moved) => InsideContainer(dragState.id)
    /\ (gest.done.id # Null /\ gest.done.moved /\ gest.done.alone
          /\ gest.active = <<>>) => InsideContainer(gest.done.id)

\* C9: when a drag of node X that moved the pointer has ended, the click on X
\* that follows it (before the next animation frame) does not toggle X, and
\* the click on X after this swallowed one toggles X.
C9_ClickSuppressedOnce ==
  [][ \A serviceId \in serviceIds(services) :
        Click(serviceId) =>
          /\ gest.clickDue = serviceId => expanded' = expanded
          /\ (gest.suppressed = serviceId /\ gest.clickDue # serviceId) =>
               expanded' = toggleService(expanded, serviceId) ]_vars

\* the same while no two pointers have been down at once
ClickSuppressedOnceWithoutOverlap ==
  [][ \A serviceId \in serviceIds(services) :
        (Click(serviceId) /\ ~gest.overlapped) =>
          /\ gest.clickDue = serviceId => expanded' = expanded
          /\ (gest.suppressed = serviceId /\ gest.clickDue # serviceId) =>
               expanded' = toggleService(expanded, serviceId) ]_vars

\* C10: while the gesture of pointer p is in progress, a pointer event (down,
\* move, up, cancel) with another pointer id changes neither the gesture
\* record nor any stored position.
C10_ExclusiveActiveGesture ==
  [][ \A q \in Pointers :
        (dragState # NoDrag /\ dragState.pointerId # q /\ PointerEventOf(q))
          => UNCHANGED <<dragState, positions>> ]_vars

\* the same for the move, up and cancel events only
ForeignMoveAndEndIgnored ==
  [][ \A q \in Pointers :
        ( /\ dragState # NoDrag /\ dragState.pointerId # q
          /\ \/ \E pt \in Points : PointerMove(q, pt)
             \/ PointerEnd(q) )
          => UNCHANGED <<dragState, positions, recentlyDraggedRef>> ]_vars

----------------------------------------------------------------------------
(* The leveler on its own: buildInitialPositions, one service of its       *)
(* forEach at a step.  The nodes are N1, N2, ...; the services are the     *)
(* first n of them, so that an edge may also name a node that is no        *)
(* service; the edge list is any list of up to MaxLevelEdges pairs.        *)

LevelNodes == { "N" \o ToString(i) : i \in 1..MaxLevelNodes }

LevelServices ==
  { [i \in 1..n |-> [id |-> "N" \o ToString(i), label |-> "N" \o ToString(i),
                     spans |-> <<>>]] : n \in 1..MaxLevelNodes }

LevelEdges ==
  UNION { [1..n -> { Edge(undefined, a, b) : a \in LevelNodes, b \in LevelNodes }] :
          n \in 0..MaxLevelEdges }

InitLevel ==
  /\ services \in LevelServices
  /\ edges \in LevelEdges
  /\ expanded = {}
  /\ expandedOrder = <<>>
  /\ container = initialContainer
  /\ variant = "drag"
  /\ effect = initialEffect
  /\ published = NotPublished
  /\ notified = NotNotified
  /\ geometry = initialGeometry
  /\ layoutPending = FALSE
  /\ positions = <<>>
  /\ zoom = 90
  /\ dragState = NoDrag
  /\ recentlyDraggedRef = Null
  /\ rafCallbacks = <<>>
  /\ memo = <<>>
  /\ levelBuckets = <<>>
  /\ cursor = 1
  /\ rangeError = FALSE
  /\ hist = NoHist
  /\ gest = NoGest

\* services.forEach((service) => { const level = computeLevel(service.id); ... })
LevelStep ==
  /\ cursor >= 1
  /\ cursor <= Len(services)
  /\ ~rangeError
  /\ LET st == bucketStep(incomingMapOf(edges),
                          [memo |-> memo, buckets |-> levelBuckets,
                           error |-> FALSE],
                          services[cursor])
     IN /\ memo' = st.memo
        /\ levelBuckets' = st.buckets
        /\ rangeError' = st.error
  /\ cursor' = cursor + 1
  /\ UNCHANGED <<propVars, expanded, geometry, layoutPending, zoom, positions,
                 dragVars, hist, gest>>
  /\ UNCHANGED quietVars

\* the positions of the buckets, at the end of the forEach
LevelLayout ==
  /\ cursor = Len(services) + 1
  /\ ~rangeError
  /\ positions' = bucketPositions(levelBuckets)
  /\ cursor' = 0
  /\ UNCHANGED <<propVars, expanded, geometry, layoutPending, zoom, dragVars,
                 memo, levelBuckets, rangeError, hist, gest>>
  /\ UNCHANGED quietVars

NextLevel == LevelStep \/ LevelLayout

SpecLevel == InitLevel /\ [][NextLevel]_vars

----------------------------------------------------------------------------
(* Properties of the leveler. *)

Preds(v) == { e.from : e \in { f \in Range(edges) : f.to = v } }

RECURSIVE ReachFrom(_, _)
\* the nodes from which an edge path leads into the set seen
ReachFrom(seen, n) ==
  IF n = 0 THEN seen
  ELSE ReachFrom(seen \cup UNION { Preds(v) : v \in seen }, n - 1)

Ancestors(v) == ReachFrom(Preds(v), MaxLevelNodes + 1)
Cyclic == \E v \in LevelNodes : v \in Ancestors(v)

\* the level buildInitialPositions has given a service: its bucket
BucketOf(id) ==
  { level \in DOMAIN levelBuckets : id \in Range(levelBuckets[level]) }

Processed == { services[i].id : i \in 1..(IF cursor = 0 THEN Len(services)
                                          ELSE cursor - 1) }

SetMax(S) == CHOOSE x \in S : \A y \in S : y <= x

\* C6: on an acyclic graph every node that computeLevel has levelled has the
\* level 0 when it has no incoming edge and 1 + the maximum of the levels of
\* its direct predecessors otherwise; a service is in the bucket of its level
C6_LevelsOfAcyclicGraph ==
  ~Cyclic =>
    /\ ~rangeError
    /\ \A v \in DOMAIN memo :
         IF Preds(v) = {} THEN memo[v] = 0
         ELSE /\ Preds(v) \subseteq DOMAIN memo
              /\ memo[v] = 1 + SetMax({ memo[p] : p \in Preds(v) })
    /\ \A id \in Processed : id \in DOMAIN memo /\ BucketOf(id) = {memo[id]}

\* all services levelled, on an acyclic graph with a node of two predecessors
\* of different levels
C6_Witness ==
  /\ ~Cyclic
  /\ cursor = 0
  /\ Len(services) = MaxLevelNodes
  /\ \E v \in DOMAIN memo :
       \E p \in Preds(v), q \in Preds(v) : memo[p] < memo[q]

\* C7: on a graph with a cycle the level computation ends for every service
\* without an error, with a level between 0 and the number of nodes; a node
\* whose only predecessor is itself is met again on the recursion path,
\* counts 0 there and so gets the level 1
C7_LevelsOfCyclicGraph ==
  Cyclic =>
    /\ ~rangeError
    /\ \A v \in DOMAIN memo : memo[v] \in 0..MaxLevelNodes
    /\ \A id \in Processed :
         /\ id \in DOMAIN memo
         /\ BucketOf(id) = {memo[id]}
    /\ \A v \in DOMAIN memo : Preds(v) = {v} => memo[v] = 1

\* all services levelled, on a graph with a self-loop and a cycle of two nodes
C7_Witness ==
  /\ cursor = 0
  /\ Len(services) = MaxLevelNodes
  /\ \E v \in LevelNodes : Preds(v) = {v}
  /\ \E v \in LevelNodes, w \in LevelNodes :
       v # w /\ v \in Preds(w) /\ w \in Preds(v)

----------------------------------------------------------------------------
(* Properties of the connector builder. *)

AllPairs == Range(spanPairs(services))
PairKey(p) == makeSpanKey(p.svc.id, p.span.id)
SpanKeysOf(X) == { PairKey(p) : p \in { q \in AllPairs : q.svc.id = X } }

\* the ids of the connectors that start at a span of X
OutgoingIds(X) ==
  UNION { { PairKey(p) \o "->" \o Join(p.span.outboundSpanRef),
            PairKey(p) \o "->" \o p.span.outboundServiceId } :
          p \in { q \in AllPairs : q.svc.id = X } }

\* the ids of the incoming connectors that end at a span of X
IncomingIds(X) ==
  { PairKey(p) \o "->" \o k \o ":IN" : p \in AllPairs, k \in SpanKeysOf(X) }
  \cup { e.from \o "->" \o k : e \in { f \in Range(edges) : f.to = X },
                               k \in SpanKeysOf(X) }

\* the ids of the span-to-span connectors that end at a span of X
SpanLinkIdsInto(X) ==
  { PairKey(p) \o "->" \o k : p \in AllPairs, k \in SpanKeysOf(X) }

NoOutbound(X) ==
  \A p \in AllPairs : p.svc.id = X =>
    Falsy(p.span.outboundServiceId) /\ p.span.outboundSpanRef = <<>>

\* C1 (as claimed): an edge without an explicit id whose endpoints both have
\* geometry gives exactly one connector with the id "from->to", however often
\* the pair occurs in the edge list
C1_ServiceEdgesDeduplicated ==
  \A i \in 1..Len(edges) :
    ( /\ edges[i].id = undefined
      /\ edges[i].from \in DOMAIN geometry.services
      /\ edges[i].to \in DOMAIN geometry.services )
    => CountId(renderedEdges, edges[i].from \o "->" \o edges[i].to) = 1

ResolvedRef(p) ==
  LET parts == split(p.span.outboundSpanRef)
  IN /\ p.span.outboundSpanRef # <<>>
     /\ Len(parts) = 2
     /\ makeSpanKey(parts[1], parts[2]) \in { PairKey(q) : q \in AllPairs }

\* the connectors of the rebuilt set that draw the link of p
LinkConnectors(p) ==
  { i \in 1..Len(renderedSpans) :
      renderedSpans[i].id \in
        { PairKey(p) \o "->" \o Join(p.span.outboundSpanRef),
          PairKey(p) \o "->" \o Join(p.span.outboundSpanRef) \o ":IN" } }

\* C3 (as claimed): a span-to-span link of an expanded service has no connector
\* while the target service is collapsed, and exactly one, with the id
\* "A:S1->B:S2", once the target is expanded and measured
C3_OneConnectorPerLink ==
  \A p \in AllPairs :
    (ResolvedRef(p) /\ ~layoutPending /\ p.svc.id \in expanded) =>
      LET target == split(p.span.outboundSpanRef)[1]
      IN IF target \in expanded
         THEN /\ Cardinality(LinkConnectors(p)) = 1
              /\ \A i \in LinkConnectors(p) :
                   renderedSpans[i].id =
                     PairKey(p) \o "->" \o Join(p.span.outboundSpanRef)
         ELSE LinkConnectors(p) = {}

\* C4 (as claimed): the expansion of a service without outbound references
\* leaves the connector set as it was
C4_ExpandAddsNothing ==
  (hist.kind = "expand" /\ ~layoutPending /\ NoOutbound(hist.id)) =>
    /\ renderedEdges = hist.edges
    /\ renderedSpans = hist.spans

\* C4 (amended): the expansion of a service without outbound references adds
\* no connector that starts at one of its spans; every connector it adds ends
\* at one of its spans (edge fan-out, incoming aggregation, a span-to-span
\* link); nothing is added when no edge and no span reference points at the
\* service, and the free-drag variant's connector set never changes
C4_ExpandAddsOnlyInbound ==
  (hist.kind = "expand" /\ ~layoutPending /\ NoOutbound(hist.id)) =>
    /\ renderedEdges = hist.edges
    /\ renderedBasic = hist.basic
    /\ IdsOf(renderedSpans) \cap OutgoingIds(hist.id) = {}
    /\ (IdsOf(renderedSpans) \ IdsOf(hist.spans))
         \subseteq (IncomingIds(hist.id) \cup SpanLinkIdsInto(hist.id))
    /\ ( /\ \A e \in Range(edges) : e.to # hist.id
         /\ \A p \in AllPairs :
              ~(ResolvedRef(p) /\ split(p.span.outboundSpanRef)[1] = hist.id) )
       => renderedSpans = hist.spans

\* an expansion of a service without outbound references that added connectors
C4_Witness ==
  /\ hist.kind = "expand"
  /\ ~layoutPending
  /\ NoOutbound(hist.id)
  /\ IdsOf(renderedSpans) \ IdsOf(hist.spans) # {}
  /\ hist.spans # <<>>

\* C5: no rebuilt connector set, from a fresh or a stale geometry, holds a
\* connector to an outboundServiceId that is no service or to an
\* outboundSpanRef that names no span
C5_NoDanglingTarget ==
  \A p \in AllPairs :
    /\ ( /\ ~Falsy(p.span.outboundServiceId)
         /\ p.span.outboundServiceId \notin serviceIds(services) )
       => PairKey(p) \o "->" \o p.span.outboundServiceId
            \notin (IdsOf(renderedSpans) \cup IdsOf(renderedBasic))
    /\ (p.span.outboundSpanRef # <<>> /\ ~ResolvedRef(p))
       => /\ \/ LinkConnectors(p) = {}
             \* a reference that spells the id of a service: the connector of
             \* this id is the one to the span's outboundServiceId
             \/ /\ Join(p.span.outboundSpanRef) = p.span.outboundServiceId
                /\ p.span.outboundServiceId \in serviceIds(services)
                /\ \A i \in LinkConnectors(p) :
                     renderedSpans[i].id =
                       PairKey(p) \o "->" \o p.span.outboundServiceId
          /\ \A i \in 1..Len(renderedSpans) :
               renderedSpans[i].id # PairKey(p) \o "->" \o
                 makeSpanKey(split(p.span.outboundSpanRef)[1],
                             IF Len(split(p.span.outboundSpanRef)) > 1
                             THEN split(p.span.outboundSpanRef)[2] ELSE "")
                 \o ":IN"

\* both services expanded and measured, and a span with a dangling service
\* reference and a dangling span reference
C5_Witness ==
  /\ ~layoutPending
  /\ expanded = serviceIds(services)
  /\ DOMAIN geometry.spans # {}
  /\ \E p \in AllPairs :
       /\ PairKey(p) \in DOMAIN geometry.spans
       /\ p.span.outboundServiceId = "Z"
       /\ p.span.outboundSpanRef # <<>>
       /\ ~ResolvedRef(p)

-----------------------------------------------------------------------------
(* Properties of the mounted component.                                     *)

\* C12: after any sequence of zoom-step button presses and slider changes,
\* with any slider value, the zoom lies in the closed range [0.5, 1.8] and is
\* a multiple of 0.01 (zoom counts hundredths here, and clampZoom rounds the
\* requested value to them); it starts at 0.9.
C12_ZoomRange ==
  /\ variant = "drag" => zoom = initialZoom
  /\ [](zoom \in ZOOM_MIN..ZOOM_MAX)

\* a zoom off the grid of the buttons that no slider value rounds to: the
\* slider has set an off-grid value and a button has stepped from it
C12_Witness ==
  /\ variant = "drag"
  /\ ~layoutPending
  /\ zoom % ZOOM_STEP # 0
  /\ zoom \notin { clampZoom(value) : value \in LifeSliderValues }

\* the zoom levels the slider values give
ZoomLevels == { clampZoom(value) : value \in LifeSliderValues }

\* measuring the present layout at the zoom z2 gives the stored boxes
SameBoxesAt(z2) ==
  LET g == measure(services, expanded, z2, positions)
  IN /\ g.services = geometry.services
     /\ g.spans = geometry.spans

\* C13: for a fixed layout (same services, expanded set, positions and scroll
\* offset), changing zoom from z1 to any z2 in range and measuring again
\* yields the same stored Box coordinates for every service and every span.
C13_ZoomInvariantBoxes ==
  (Quiet /\ effect.mounted /\ variant = "drag") =>
    \A z2 \in ZoomLevels : SameBoxesAt(z2)

\* the same while the container is not scrolled
ZoomInvariantBoxesUnscrolled ==
  ( /\ Quiet /\ effect.mounted /\ variant = "drag"
    /\ container.scrollLeft = 0 /\ container.scrollTop = 0 ) =>
    \A z2 \in ZoomLevels : SameBoxesAt(z2)

\* an expanded service measured at a zoom other than the first one
UnscrolledZoomed ==
  /\ Quiet /\ effect.mounted /\ variant = "drag"
  /\ container.scrollLeft = 0 /\ container.scrollTop = 0
  /\ zoom # initialZoom
  /\ DOMAIN geometry.spans # {}

\* C14: when a measurement computes service boxes, span boxes and a viewport
\* that are all equal to those of the previous snapshot, the geometry state is
\* not replaced (the previous snapshot object is kept), so no downstream
\* connector recomputation is triggered.
C14_ReferentialStability ==
  published.same => ~published.replaced

\* every kind of external event, with one slider value; React runs the layout
\* effect and the passive effect that are due
NextCascade ==
  \/ Measure
  \/ Reconcile
  \/ Unmount
  \/ Quiet /\ effect.mounted /\ Click(DragServices[1].id)
  \/ Quiet /\ effect.mounted /\ variant = "drag" /\
       \E delta \in {ZOOM_STEP, -ZOOM_STEP} :
         zoom = initialZoom /\ ZoomDelta(delta)
  \/ Quiet /\ effect.mounted /\ variant = "drag" /\
       \E value \in SliderValues : ZoomSlider(value)
  \/ \E svcs \in SmallNodeSets : SetServices(svcs)
  \/ Quiet /\ \E off \in ScrollOffsets : ContainerScroll(off[1], off[2])
  \/ Quiet /\ \E size \in ContainerSizes : ContainerResize(size[1], size[2])
  \/ Quiet /\ WindowResize
  \/ Quiet /\ ObserverDeliver

SpecCascade ==
  InitLife /\ [][NextCascade]_vars /\ WF_vars(Measure \/ Reconcile)

\* a measurement that publishes: the layout effect's or a listener's
Publishes == published' # published \/ geometry' # geometry

PublishSchedulesNoMeasure == [][Publishes => ~layoutPending']_vars

\* the keys "serviceId:spanId" of the spans of the expanded services
ExpandedSpanKeys ==
  UNION { { makeSpanKey(services[i].id, services[i].spans[j].id) :
              j \in 1..Len(services[i].spans) } :
          i \in { k \in 1..Len(services) : services[k].id \in expanded } }

\* C16: every geometry snapshot a measurement publishes holds span boxes only
\* for spans of services that are expanded at the time of that measurement:
\* every key "serviceId:spanId" of the span map has serviceId in the expanded
\* set and spanId a span of that service.
C16_SpanBoxesOfExpandedOnly ==
  /\ [](~layoutPending => DOMAIN geometry.spans \subseteq ExpandedSpanKeys)
  /\ [][Measure => DOMAIN geometry'.spans \subseteq ExpandedSpanKeys]_vars

\* a measurement with one service expanded, its spans measured, and a
\* collapsed service whose spans are not
C16_Witness ==
  /\ ~layoutPending
  /\ DOMAIN geometry.spans # {}
  /\ \E i \in 1..Len(services) :
       /\ services[i].id \notin expanded
       /\ services[i].spans # <<>>
       /\ \A j \in 1..Len(services[i].spans) :
            makeSpanKey(services[i].id, services[i].spans[j].id)
              \notin DOMAIN geometry.spans

\* the ids an id list names
ListedIds(list) == { list[i] : i \in 1..Len(list) }

\* C17: the expanded set starts as the caller-supplied default set; each
\* toggle of a service id s flips the membership of s only (all other ids keep
\* their state) and invokes onExpandedChange with exactly the resulting full
\* expanded-id list; two consecutive toggles of s restore the set.
C17_ToggleStateMachine ==
  /\ expanded = ListedIds(expandedOrder)
  /\ notified = NotNotified
  /\ [][ \A s \in serviceIds(services) :
           (Click(s) /\ recentlyDraggedRef # s) =>
             /\ (s \in expanded') # (s \in expanded)
             /\ expanded' \ {s} = expanded \ {s}
             /\ ListedIds(notified') = expanded'
             /\ Len(notified') = Cardinality(expanded')
             /\ toggleService(expanded', s) = expanded ]_vars

\* a service expanded and collapsed again, with another one expanded: the
\* callback got the list without it
C17_Witness ==
  /\ hist.kind = "collapse"
  /\ hist.id \notin expanded
  /\ notified # NotNotified
  /\ ListedIds(notified) = expanded
  /\ expanded # {}

\* the three subscriptions of the claim
ListenerKinds == {"observer", "scroll", "resize"}

\* the current effect instance listens to all three, and no listener of an
\* earlier instance or of an unmounted component is left
ListenersInOrder ==
  /\ (effect.mounted /\ ~layoutPending) =>
       \A kind \in ListenerKinds : <<kind, "current">> \in effect.subs
  /\ \A l \in effect.subs : l[2] = "current"
  /\ ~effect.mounted => effect.subs = {}

\* C18: while the component is mounted, container resize, container scroll
\* and window resize each trigger a re-measurement; after teardown (and after
\* each effect re-run) every observer and listener that was registered has
\* been removed, so no measurement runs for a torn-down effect instance.
C18_ListenerLifecycle ==
  /\ [] ListenersInOrder
  /\ [][ (effect.mounted /\
          (\/ \E off \in ScrollOffsets : ContainerScroll(off[1], off[2])
           \/ \E size \in ContainerSizes : ContainerResize(size[1], size[2])
           \/ WindowResize))
         => /\ published'.replaced
            /\ geometry' = measure(services, expanded, zoom, positions)' ]_vars
  /\ [][ ~effect.mounted => UNCHANGED <<geometry, published>> ]_vars

\* the same of the variant with zoom and drag
ListenerLifecycleOfDragVariant ==
  /\ [](variant = "drag" => ListenersInOrder)
  /\ [][ (variant = "drag" /\ effect.mounted /\
          (\/ \E off \in ScrollOffsets : ContainerScroll(off[1], off[2])
           \/ \E size \in ContainerSizes : ContainerResize(size[1], size[2])
           \/ WindowResize))
         => /\ published'.replaced
            /\ geometry' = measure(services, expanded, zoom, positions)' ]_vars
  /\ [][ ~effect.mounted => UNCHANGED <<geometry, published>> ]_vars

\* the variant with zoom and drag, scrolled and measured at the offset, after
\* the effect has run more than once
DragVariantScrolled ==
  /\ variant = "drag"
  /\ effect.mounted
  /\ Quiet
  /\ container.scrollLeft # 0
  /\ zoom # initialZoom
  /\ geometry = measure(services, expanded, zoom, positions)

\* the variant with zoom and drag unmounted after a scroll
DragVariantUnmounted ==
  /\ variant = "drag"
  /\ ~effect.mounted
  /\ container.scrollLeft # 0

\* C19: after any change of logical state (node set, expanded set, zoom, drag
\* position) a re-measurement runs after the DOM reflects that state and
\* before the next paint, so every connector that is painted has endpoints
\* computed from boxes measured under the current logical state.
C19_NoStaleConnectorsAtPaint ==
  ~layoutPending => geometry = measure(services, expanded, zoom, positions)

\* painted after a change of the node set, a drag, a zoom change and a toggle
C19_Witness ==
  /\ Quiet
  /\ Len(services) < Len(DragServices)
  /\ zoom # initialZoom
  /\ expanded # {}
  /\ \E id \in serviceIds(services) :
       positions[id] # buildInitialPositions(services, edges)[id]
  /\ DOMAIN geometry.spans # {}

-----------------------------------------------------------------------------
(* Properties of the service edges.                                         *)

\* scenario A: two services without spans, one edge from A to B, both
\* collapsed, measured after the first render
ScenarioAServices ==
  << [id |-> "A", label |-> "Service A", spans |-> <<>>],
     [id |-> "B", label |-> "Service B", spans |-> <<>>] >>

ScenarioAEdges == <<Edge(undefined, "A", "B")>>

ScenarioAGeometry ==
  measure(ScenarioAServices, {}, initialZoom,
          buildInitialPositions(ScenarioAServices, ScenarioAEdges))

ScenarioAConnectors ==
  serviceEdges(ScenarioAEdges, ScenarioAGeometry)
    \o spanConnectors(ScenarioAServices, ScenarioAEdges, {}, ScenarioAGeometry)

\* the edges whose two endpoints have a box in the current geometry
BoxedEdges ==
  SelectSeq(edges, LAMBDA edge : /\ edge.from \in DOMAIN geometry.services
                                 /\ edge.to \in DOMAIN geometry.services)

\* C20: for every logical edge a connector is emitted if and only if both
\* endpoint services have a Box in the current geometry; its id is the
\* explicit edge id or else "from->to".  In particular two collapsed services
\* A and B with one edge A->B and no spans give a connector set with exactly
\* one entry, of the id "A->B".
C20_ServiceEdgeRule ==
  /\ Len(renderedEdges) = Len(BoxedEdges)
  /\ \A k \in 1..Len(BoxedEdges) :
       renderedEdges[k].id =
         IF BoxedEdges[k].id = undefined
         THEN BoxedEdges[k].from \o "->" \o BoxedEdges[k].to
         ELSE BoxedEdges[k].id
  /\ Len(ScenarioAConnectors) = 1
  /\ ScenarioAConnectors[1].id = "A->B"

\* a measured graph with an edge of an explicit id that is drawn and an edge
\* from a service that does not exist, which is dropped
C20_Witness ==
  /\ ~layoutPending
  /\ Len(edges) = MaxEdges
  /\ Len(renderedEdges) = 1
  /\ renderedEdges[1].id # renderedEdges[1].label
  /\ \E i \in 1..Len(edges) : edges[i].id # undefined
  /\ \E i \in 1..Len(edges) : edges[i].from \notin serviceIds(services)
  /\ BoxedEdges[1].id = renderedEdges[1].id

-----------------------------------------------------------------------------
(* Properties of the span connectors.                                       *)

\* scenario B: span S1 of service A has outboundServiceId B and no span
\* reference
ScenarioB ==
  /\ services[1].id = "A"
  /\ services[1].spans[1].id = "S1"
  /\ services[1].spans[1].outboundServiceId = "B"
  /\ services[1].spans[1].outboundSpanRef = <<>>

\* scenario B and nothing else: B is collapsed and has no outbound
\* reference, and no edge ends at A
ScenarioBAlone ==
  /\ ScenarioB
  /\ "B" \notin expanded
  /\ NoOutbound("B")
  /\ \A e \in Range(edges) : e.to # "A"

\* C21: when span S1 of service A has outboundServiceId B, the connector set
\* contains no span connector while A is collapsed, and after A is expanded
\* and S1 is measured it gains exactly one entry, with the id "A:S1->B".
C21_SpanToServiceOnExpand ==
  ScenarioB =>
    /\ "A" \notin expanded =>
         /\ (IdsOf(renderedSpans) \cup IdsOf(renderedBasic))
              \cap OutgoingIds("A") = {}
         /\ renderedBasic = <<>> \/ "B" \in expanded
         /\ ScenarioBAlone => renderedSpans = <<>>
    /\ (hist.kind = "expand" /\ hist.id = "A" /\ ~layoutPending) =>
         /\ CountId(renderedSpans, "A:S1->B") = 1
         /\ CountId(renderedBasic, "A:S1->B") = 1
         /\ "A:S1->B" \notin (IdsOf(hist.spans) \cup IdsOf(hist.basic))
         /\ ScenarioBAlone =>
              /\ hist.spans = <<>>
              /\ IdsOf(renderedSpans) = {"A:S1->B"}
              /\ Len(renderedSpans) = 1

\* scenario B alone, A expanded and measured
C21_Witness ==
  /\ ScenarioBAlone
  /\ hist.kind = "expand"
  /\ hist.id = "A"
  /\ ~layoutPending
  /\ hist.spans = <<>>
  /\ Len(renderedSpans) = 1
  /\ renderedSpans[1].id = "A:S1->B"

-----------------------------------------------------------------------------
(* The position map under changes of the services prop.                     *)

\* services props that remove a node, add a node and do both
ReconcileNodeSets ==
  { DragServices,
    <<DragServices[1]>>,
    <<DragServices[1], [id |-> "C", label |-> "Service C", spans |-> <<>>]>> }

InitReconcile ==
  /\ InitLife
  /\ variant = "drag"

NextReconcile ==
  \/ Measure
  \/ Reconcile
  \/ Quiet /\ \E serviceId \in serviceIds(services), pt \in Points :
       PointerDown(serviceId, 1, pt)
  \/ Quiet /\ \E pt \in Points : PointerMove(1, pt)
  \/ Quiet /\ PointerEnd(1)
  \/ \E svcs \in ReconcileNodeSets : SetServices(svcs)

SpecReconcile == InitReconcile /\ [][NextReconcile]_vars

-----------------------------------------------------------------------------
(* The connector builders as functions of their inputs.                     *)

\* one run of the useMemo callbacks of serviceEdges and spanConnectors over
\* the current services, edges, expanded set and geometry; hist keeps the
\* result
Build ==
  /\ ~layoutPending
  /\ hist' = [kind |-> "build", id |-> Null, edges |-> renderedEdges,
              spans |-> renderedSpans, basic |-> renderedBasic]
  /\ UNCHANGED <<propVars, expanded, geometry, layoutPending, zoom, positions,
                 dragVars, levelVars, quietVars, gest>>

NextBuild ==
  \/ Measure
  \/ \E serviceId \in serviceIds(services) : Click(serviceId)
  \/ Build

SpecBuild == Init /\ [][NextBuild]_vars

InitRefs ==
  /\ Init
  /\ Len(edges) <= 1

SpecRefs == InitRefs /\ [][Next]_vars

\* parts.length !== 2 for a reference that is set
Malformed(ref) == ref # <<>> /\ Len(split(ref)) # 2

\* the services with every malformed outboundSpanRef taken out
withoutMalformedRefs(svcs) ==
  [i \in 1..Len(svcs) |->
     [svcs[i] EXCEPT !.spans =
        [j \in 1..Len(@) |->
           IF Malformed(@[j].outboundSpanRef)
           THEN [@[j] EXCEPT !.outboundSpanRef = <<>>]
           ELSE @[j]]]]

\* C24: a span whose outboundSpanRef is malformed (splitting on ':' does not
\* give exactly two parts) is treated as having no span reference: the build
\* completes, has no connector for that reference and equals the build of the
\* same services without the reference, for any geometry and expanded set.
C24_MalformedRefIgnored ==
  LET built == renderedSpans
  IN (\E p \in AllPairs : Malformed(p.span.outboundSpanRef)) =>
       /\ \A p \in AllPairs :
            Malformed(p.span.outboundSpanRef) =>
              IdsOf(built) \cap
                ({ PairKey(p) \o "->" \o Join(p.span.outboundSpanRef),
                   PairKey(p) \o "->" \o Join(p.span.outboundSpanRef) \o ":IN" }
                 \ { PairKey(p) \o "->" \o p.span.outboundServiceId }) = {}
       /\ built = spanConnectors(withoutMalformedRefs(services), edges,
                                 expanded, geometry)

\* a reference of three parts whose first two name a span that has geometry,
\* on an unfolded span that also names the service B
C24_Witness ==
  /\ services[1].spans[1].outboundSpanRef = <<"B", ":", "S2", ":", "x">>
  /\ services[1].spans[1].outboundServiceId = "B"
  /\ expanded = {"A", "B"}
  /\ ~layoutPending
  /\ {"A:S1", "B:S2"} \subseteq DOMAIN geometry.spans
  /\ "A:S1->B" \in IdsOf(renderedSpans)

\* a well-formed outboundSpanRef whose target span has no box in the geometry
UnresolvedRef(p) ==
  LET parts == split(p.span.outboundSpanRef)
  IN /\ p.span.outboundSpanRef # <<>>
     /\ Len(parts) = 2
     /\ makeSpanKey(parts[1], parts[2]) \notin DOMAIN geometry.spans

\* C25 (as claimed): once a span's outboundSpanRef is set and its target span
\* has no geometry, no outgoing connector is produced for that span, not even
\* the one of its outboundServiceId
C25_NoServiceFallback ==
  \A p \in AllPairs :
    UnresolvedRef(p) =>
      IdsOf(renderedSpans) \cap
        { PairKey(p) \o "->" \o Join(p.span.outboundSpanRef),
          PairKey(p) \o "->" \o p.span.outboundServiceId } = {}

\* C25 (amended): once a span's outboundSpanRef is set and its target span has
\* no geometry, no span-to-span connector is produced for that span, and the
\* connector to its outboundServiceId is produced exactly when the span's
\* service is expanded, the span has a box and that service has a box
C25_ServiceFallback ==
  \A p \in AllPairs :
    UnresolvedRef(p) =>
      LET built == renderedSpans
      IN
      /\ PairKey(p) \o "->" \o Join(p.span.outboundSpanRef) \notin IdsOf(built)
      /\ CountId(built, PairKey(p) \o "->" \o p.span.outboundServiceId)
           = IF /\ p.svc.id \in expanded
                /\ PairKey(p) \in DOMAIN geometry.spans
                /\ ~Falsy(p.span.outboundServiceId)
                /\ p.span.outboundServiceId \in DOMAIN geometry.services
             THEN 1 ELSE 0

\* scenario C with an outboundServiceId: S1 of the expanded A points at B:S2
\* and at B, B is collapsed, and the measured set holds "A:S1->B"
C25_Witness ==
  /\ services[1].spans[1].outboundSpanRef = <<"B", ":", "S2">>
  /\ services[1].spans[1].outboundServiceId = "B"
  /\ "B:S2" \in SpanKeysOf("B")
  /\ expanded = {"A"}
  /\ ~layoutPending
  /\ "B:S2" \notin DOMAIN geometry.spans
  /\ CountId(renderedSpans, "A:S1->B") = 1

\* the geometry without the boxes of the span of p and of its service
withoutSourceOf(geom, p) ==
  [geom EXCEPT
     !.services = [k \in DOMAIN @ \ {p.svc.id} |-> @[k]],
     !.spans = [k \in DOMAIN @ \ {PairKey(p)} |-> @[k]]]

\* the paths of the connectors of a build that have the id
PathsOf(connectors, id) ==
  { connectors[i].path : i \in { j \in 1..Len(connectors) : connectors[j].id = id } }

\* C26: for every span (in any service, expanded or not) with a well-formed
\* outboundSpanRef whose target service is expanded and whose target span has
\* geometry, one inbound connector into the target span is produced, sourced
\* from the origin span's box when it has geometry and otherwise from the
\* origin service's box; none is produced when the target service is
\* collapsed or neither source box exists.
C26_IncomingAggregation ==
  \A p \in AllPairs :
    LET parts == split(p.span.outboundSpanRef)
        targetKey == makeSpanKey(parts[1], parts[2])
        id == PairKey(p) \o "->" \o targetKey \o ":IN"
        srcBox == IF PairKey(p) \in DOMAIN geometry.spans
                  THEN geometry.spans[PairKey(p)]
                  ELSE geometry.services[p.svc.id]
        built == renderedSpans
    IN (p.span.outboundSpanRef # <<>> /\ Len(parts) = 2) =>
         /\ ( /\ parts[1] \in expanded
              /\ targetKey \in DOMAIN geometry.spans
              /\ \/ PairKey(p) \in DOMAIN geometry.spans
                 \/ p.svc.id \in DOMAIN geometry.services ) =>
              /\ CountId(built, id) = 1
              /\ PathsOf(built, id) =
                   { buildCurvePath(
                       [x |-> srcBox.right + 16, y |-> srcBox.centerY],
                       [x |-> geometry.spans[targetKey].left - 12,
                        y |-> geometry.spans[targetKey].centerY]) }
         /\ parts[1] \notin expanded => CountId(built, id) = 0
         /\ id \notin IdsOf(spanConnectors(services, edges, expanded,
                                           withoutSourceOf(geometry, p)))

\* S2 of the collapsed B points at the measured span S1 of the expanded A:
\* the inbound connector starts at the box of the service B
C26_Witness ==
  /\ expanded = {"A"}
  /\ ~layoutPending
  /\ \E p \in AllPairs :
       /\ p.svc.id = "B"
       /\ p.span.outboundSpanRef = <<"A", ":", "S1">>
       /\ PairKey(p) \notin DOMAIN geometry.spans
       /\ CountId(renderedSpans, PairKey(p) \o "->A:S1:IN") = 1

\* the ids a fan-out can have: a service name, "->", and the key of a span
FanOutIdsInto(X) ==
  { from \o "->" \o k : from \in serviceIds(services) \cup {"Z"},
                         k \in SpanKeysOf(X) }

\* C27: for every service edge whose target service is expanded and whose
\* source service has a Box, the span-connector set contains exactly one
\* connector per span of the target that has geometry, with the id
\* "from->to:spanId"; edges into collapsed targets or from sources without a
\* Box contribute none.
C27_EdgeFanOut ==
  LET built == renderedSpans
  IN /\ \A e \in Range(edges) : \A k \in SpanKeysOf(e.to) :
          CountId(built, e.from \o "->" \o k)
            = IF /\ e.to \in expanded
                 /\ e.from \in DOMAIN geometry.services
                 /\ k \in DOMAIN geometry.spans
              THEN 1 ELSE 0
     /\ \A X \in serviceIds(services) :
          IdsOf(built) \cap FanOutIdsInto(X)
            \subseteq { e.from \o "->" \o k :
                          e \in { f \in Range(edges) : f.to = X },
                          k \in SpanKeysOf(X) }

\* the edge A->B twice, B expanded with two measured spans: one connector
\* into each span
C27_Witness ==
  /\ Len(edges) > 1
  /\ \A i \in 1..Len(edges) : edges[i].from = "A" /\ edges[i].to = "B"
  /\ "B" \in expanded
  /\ ~layoutPending
  /\ {"B:S2", "B:S3"} \subseteq DOMAIN geometry.spans
  /\ CountId(renderedSpans, "A->B:S2") = 1
  /\ CountId(renderedSpans, "A->B:S3") = 1

-----------------------------------------------------------------------------
(* Properties of the initial layout.                                        *)

\* the services of the level of services[k], and those of them before it, in
\* input order
SameLevel(k) ==
  { j \in 1..Len(services) : memo[services[j].id] = memo[services[k].id] }
SameLevelBefore(k) == { j \in SameLevel(k) : j < k }

\* C28: every service gets x = 140 + level * 320; the services of one level
\* are stacked in input order with a spacing of 220 and their y values are
\* centered on the vertical anchor 140 (for a bucket of n nodes the i-th has
\* y = 140 - (n-1)*220/2 + i*220).
C28_InitialCoordinates ==
  cursor = 0 =>
    /\ DOMAIN positions = serviceIds(services)
    /\ \A k \in 1..Len(services) :
         LET p == positions[services[k].id]
             n == Cardinality(SameLevel(k))
             i == Cardinality(SameLevelBefore(k))
         IN /\ p.x = HORIZONTAL_PADDING + memo[services[k].id] * COLUMN_WIDTH
            /\ 2 * p.y = 2 * VERTICAL_PADDING - (n - 1) * ROW_HEIGHT
                           + 2 * i * ROW_HEIGHT
    /\ \A level \in DOMAIN levelBuckets :
         LET ys == { positions[id].y : id \in Range(levelBuckets[level]) }
             lowest == CHOOSE y \in ys : \A z \in ys : y <= z
         IN SetMax(ys) + lowest = 2 * VERTICAL_PADDING

\* a laid out graph with a level of two services and a service of level 1
C28_Witness ==
  /\ cursor = 0
  /\ \E k \in 1..Len(services) : Cardinality(SameLevel(k)) = 2
  /\ \E id \in DOMAIN memo : memo[id] = 1
  /\ \E id \in DOMAIN positions :
       positions[id].y = VERTICAL_PADDING - ROW_HEIGHT \div 2

-----------------------------------------------------------------------------
(* Properties of the end of a gesture.                                      *)

\* C29: every drag gesture that has started returns to idle when the
\* initiating pointer sends pointer-up or pointer-cancel: handlePointerEnd
\* clears the active gesture record and releases the pointer capture of that
\* pointer (it does both or, on its early return, neither); no sequence of
\* pointer events leaves a record that this release cannot clear.
C29_GestureTermination ==
  [][ \A q \in Pointers :
        (q \in DOMAIN gest.active /\ PointerEnd(q)) =>
          /\ dragState # NoDrag
          /\ dragState.pointerId = q
          /\ dragState' = NoDrag ]_vars

\* the same for a gesture during which no other pointer was down
TerminationOfLoneGesture ==
  [][ \A q \in Pointers :
        (q \in DOMAIN gest.active /\ gest.active[q].alone /\ PointerEnd(q)) =>
          /\ dragState # NoDrag
          /\ dragState.pointerId = q
          /\ dragState' = NoDrag ]_vars

\* whenever a record is set, the pointer that it names is still down, so that
\* its release reaches handlePointerEnd and clears the record
RecordOfPointerThatIsDown ==
  dragState # NoDrag => dragState.pointerId \in DOMAIN gest.active

-----------------------------------------------------------------------------
(* Elements that have no box yet.                                           *)

\* measure when only the elements of mountedServices and mountedSpans are in
\* serviceRefs and spanRefs: `if (!element) return` leaves the others out
measureMounted(svcs, exp, z, pos, mountedServices, mountedSpans) ==
  LET all == measure(svcs, exp, z, pos)
  IN [all EXCEPT
        !.services = [id \in DOMAIN @ \cap mountedServices |-> @[id]],
        !.spans = [k \in DOMAIN @ \cap mountedSpans |-> @[k]]]

\* the rendered elements that have no box in the published geometry
Unboxed ==
  (serviceIds(services) \ DOMAIN geometry.services)
    \cup (ExpandedSpanKeys \ DOMAIN geometry.spans)

-----------------------------------------------------------------------------
(* Properties of the connector ids.                                         *)

\* the parent renders the component with another edges prop, one edge longer
\* or one edge shorter.  No dependency of the layout effect changes, so no
\* measurement follows; useMemo keeps the span connectors, whose dependencies
\* are [services, expanded, geometry.spans, geometry.services], and hist
\* holds what the memos held before the first such render
SetEdges(es) ==
  /\ ~layoutPending
  /\ \/ /\ Len(edges) < MaxEdges
        /\ \E edge \in EdgeChoices : es = Append(edges, edge)
     \/ /\ edges # <<>>
        /\ es = SubSeq(edges, 1, Len(edges) - 1)
  /\ edges' = es
  /\ hist' = IF hist.kind = "memo" THEN hist
             ELSE [kind |-> "memo", id |-> Null, edges |-> renderedEdges,
                   spans |-> renderedSpans, basic |-> renderedBasic]
  /\ UNCHANGED <<services, expanded, geometry, layoutPending, zoom, positions,
                 dragVars, levelVars, quietVars, gest>>

\* the value of the spanConnectors memo in the render of the current state
memoizedSpans == IF hist.kind = "memo" THEN hist.spans ELSE renderedSpans

\* no edge at first, B with at most one span, and a span reference that is
\* unset or names that span
InitEdges ==
  /\ Init
  /\ edges = <<>>
  /\ Len(services[2].spans) <= 1
  /\ services[1].spans[1].outboundSpanRef \in {<<>>, <<"B", ":", "S2">>}

NextEdges ==
  \/ Measure
  \/ \E serviceId \in serviceIds(services) : Click(serviceId)
  \/ \E es \in ConnEdges : SetEdges(es)

SpecEdges == InitEdges /\ [][NextEdges]_vars

\* the ids that the logical links of the inputs can have: edge ids, pairs of
\* endpoints, and span keys with the reference or service they point at
LogicalIds ==
  { e.id : e \in Range(edges) } \cup { e.from \o "->" \o e.to : e \in Range(edges) }
    \cup UNION { OutgoingIds(X) \cup IncomingIds(X) : X \in serviceIds(services) }

\* C31: the id of a connector is a function of its logical endpoints only
\* (edge id or from/to, service id, span id, span reference): the same links
\* rendered from the reversed service and edge lists and from a geometry with
\* every box moved have the same ids, and every id is spelled from the
\* endpoints alone, with no array index and no coordinate in it.
C31_StableConnectorIds ==
  LET reversed(s) == [i \in 1..Len(s) |-> s[Len(s) + 1 - i]]
      moved(box) == [centerX |-> box.centerX + NODE_WIDTH,
                     centerY |-> box.centerY + NODE_HEIGHT,
                     left |-> box.left + NODE_WIDTH,
                     right |-> box.right + NODE_WIDTH,
                     top |-> box.top + NODE_HEIGHT,
                     bottom |-> box.bottom + NODE_HEIGHT]
      elsewhere == [geometry EXCEPT
                      !.services = [k \in DOMAIN @ |-> moved(@[k])],
                      !.spans = [k \in DOMAIN @ |-> moved(@[k])]]
      builtEdges == renderedEdges
      builtSpans == renderedSpans
      builtBasic == renderedBasic
      builtThere == spanConnectors(services, edges, expanded, elsewhere)
  IN /\ IdsOf(builtEdges) \cup IdsOf(builtSpans) \cup IdsOf(builtBasic)
          \subseteq LogicalIds
     /\ IdsOf(serviceEdges(reversed(edges), elsewhere)) = IdsOf(builtEdges)
     /\ IdsOf(spanConnectors(reversed(services), reversed(edges), expanded,
                             elsewhere)) = IdsOf(builtSpans)
     /\ IdsOf(spanConnectorsBasic(reversed(services), expanded, elsewhere))
          = IdsOf(builtBasic)
     /\ [i \in 1..Len(builtSpans) |-> builtSpans[i].id]
          = [i \in 1..Len(builtThere) |-> builtThere[i].id]

\* two different edges and connectors of all three passes, measured
C31_Witness ==
  /\ ~layoutPending
  /\ Len(edges) > 1
  /\ edges[1] # edges[Len(edges)]
  /\ Len(renderedEdges) > 1
  /\ expanded = {"A", "B"}
  /\ \E i \in 1..Len(renderedSpans), j \in 1..Len(renderedSpans) :
       /\ renderedSpans[i].id \in OutgoingIds("A")
       /\ renderedSpans[j].id \in IncomingIds("B")

\* C32: for services with unique ids and spans unique within a service, any
\* edge list (duplicate edges included), any expanded set and any geometry,
\* no two connectors of the built span-connector set share an id.
C32_SpanConnectorIdsUnique ==
  LET built == renderedSpans
  IN \A i \in 1..Len(built), j \in 1..Len(built) :
       built[i].id = built[j].id => i = j

\* the same edge twice into the measured spans of the expanded B: each span
\* has one fan-out connector
C32_Witness ==
  /\ ~layoutPending
  /\ Len(edges) > 1
  /\ edges[1] = edges[Len(edges)]
  /\ edges[1].to = "B"
  /\ "B" \in expanded
  /\ \E i \in 1..Len(renderedSpans) : renderedSpans[i].id = "A->B:S2"

\* C35: after the edges input changes while services, expanded set and
\* geometry stay the same, the span-level connector set that is rendered next
\* equals the result of the builder applied to the new edge list: no fan-out
\* connector of a removed edge remains and none of an added edge is missing.
C35_SpanConnectorsFollowEdges ==
  memoizedSpans = spanConnectors(services, edges, expanded, geometry)

-----------------------------------------------------------------------------
(* Properties of the click that follows a gesture.                          *)

\* the last gesture that ended was a pointer-down and pointer-up on the node
\* without a pointer-move, and no pointer is down
PlainGestureOn(serviceId) ==
  /\ gest.done.id = serviceId
  /\ ~gest.done.moved
  /\ DOMAIN gest.active = {}

\* C33 (as claimed): a pointer-down followed by pointer-up on a node with no
\* pointer-move in between never sets the click-suppression flag, so the click
\* that follows toggles the node's expanded state
C33_PlainClickToggles ==
  [][ /\ \A q \in Pointers :
           (q \in DOMAIN gest.active /\ ~gest.active[q].moved /\ PointerEnd(q))
             => recentlyDraggedRef' = recentlyDraggedRef
      /\ \A serviceId \in serviceIds(services) :
           (PlainGestureOn(serviceId) /\ Click(serviceId))
             => expanded' = toggleService(expanded, serviceId) ]_vars

\* C33 (amended): a pointer-down followed by pointer-up on a node with no
\* pointer-move in between never sets the click-suppression flag; the click
\* that follows toggles the node's expanded state unless the flag of an
\* earlier moved drag of the same node is still set, in which case that click
\* is swallowed and clears the flag
C33_PlainClickTogglesUnlessFlagged ==
  [][ /\ \A q \in Pointers :
           (q \in DOMAIN gest.active /\ ~gest.active[q].moved /\ PointerEnd(q))
             => recentlyDraggedRef' = recentlyDraggedRef
      /\ \A serviceId \in serviceIds(services) :
           (PlainGestureOn(serviceId) /\ Click(serviceId))
             => IF recentlyDraggedRef = serviceId
                THEN expanded' = expanded /\ recentlyDraggedRef' = Null
                ELSE expanded' = toggleService(expanded, serviceId) ]_vars

\* A was pressed and released without a move, and the click has expanded it
C33_Witness ==
  /\ PlainGestureOn("A")
  /\ gest.count = 1
  /\ recentlyDraggedRef = Null
  /\ hist.kind = "expand"
  /\ hist.id = "A"
  /\ "A" \in expanded

\* drags of the two nodes by one pointer, their clicks and the animation
\* frames
NextFlag ==
  \/ Measure
  \/ \E serviceId \in serviceIds(services) : Click(serviceId)
  \/ \E serviceId \in serviceIds(services), pt \in Points :
       PointerDown(serviceId, 1, pt)
  \/ \E pt \in Points : PointerMove(1, pt)
  \/ PointerEnd(1)
  \/ AnimationFrame

SpecFlag == InitDrag /\ [][NextFlag]_vars

\* the flag as one frame callback, requested at the end of a drag of the
\* node, leaves it
afterCallbackOf(serviceId) == runCallbacks(<<serviceId>>, recentlyDraggedRef)

\* C34: the flag set for node X at the end of a moved drag is cleared by the
\* next animation frame if no click consumed it, so a click on X after that
\* frame is not suppressed; the flag never suppresses a click on another node
\* Y (that click toggles Y and leaves the flag); and the frame callback of an
\* earlier drag of X never clears the flag set by a later drag of another node
C34_FlagLifeAndScope ==
  [][ /\ AnimationFrame => recentlyDraggedRef' = Null
      /\ \A serviceId \in serviceIds(services) :
           (recentlyDraggedRef # serviceId /\ Click(serviceId))
             => /\ expanded' = toggleService(expanded, serviceId)
                /\ recentlyDraggedRef' = recentlyDraggedRef
      /\ \A i \in DOMAIN rafCallbacks :
           rafCallbacks[i] # recentlyDraggedRef
             => afterCallbackOf(rafCallbacks[i]) = recentlyDraggedRef
      /\ recentlyDraggedRef # Null
           => \E i \in DOMAIN rafCallbacks : rafCallbacks[i] = recentlyDraggedRef
    ]_vars

\* the callback of a moved drag of A is still due while the flag is the one
\* of the later moved drag of B
C34_Witness ==
  /\ rafCallbacks = <<"A", "B">>
  /\ recentlyDraggedRef = "B"
  /\ gest.done.id = "B"
  /\ gest.done.moved

-----------------------------------------------------------------------------
(* The leveler and the order of its inputs.                                 *)

\* the lists with the elements of s in another order
Reorderings(s) ==
  { [i \in 1..Len(s) |-> s[p[i]]] : p \in Permutations(1..Len(s)) }

\* the level computeLevel gives to each service of svcs, the services taken
\* in the order of svcs and the parents in the order of es
levelsOf(svcs, es) ==
  LET st == bucketAll(incomingMapOf(es),
                      [memo |-> <<>>, buckets |-> <<>>, error |-> FALSE], svcs)
  IN [id \in serviceIds(svcs) |-> st.memo[id]]

\* the leveler on the service lists with at most one node that is no service
InitOrder == InitLevel /\ Len(services) >= MaxLevelNodes - 1

SpecOrder == InitOrder /\ [][NextLevel]_vars

\* the levels the forEach of the state has given
levelsGiven == [id \in serviceIds(services) |-> memo[id]]

\* C36 (as claimed): for any dependency graph, including cyclic ones, the
\* level assigned to a service depends only on the set of edges and not on the
\* order in which services or edges are listed in the input
C36_LevelsOrderIndependent ==
  (cursor = 0 /\ ~rangeError) =>
    LET given == levelsGiven
    IN \A svcs \in Reorderings(services), es \in Reorderings(edges) :
         levelsOf(svcs, es) = given

\* C36 (amended): for any dependency graph without a cycle, the level assigned
\* to a service depends only on the set of edges and not on the order in which
\* services or edges are listed in the input
C36_AcyclicLevelsOrderIndependent ==
  (cursor = 0 /\ ~rangeError /\ ~Cyclic) =>
    LET given == levelsGiven
    IN \A svcs \in Reorderings(services), es \in Reorderings(edges) :
         levelsOf(svcs, es) = given

\* all services levelled on an acyclic graph in which a node has two
\* predecessors of different levels, listed in both orders
C36_Witness ==
  /\ cursor = 0
  /\ ~Cyclic
  /\ Len(services) = MaxLevelNodes
  /\ \E i \in DOMAIN edges, j \in DOMAIN edges :
       /\ i < j
       /\ edges[i].to = edges[j].to
       /\ memo[edges[i].from] > memo[edges[j].from]

\* C37: for any services with pairwise distinct ids and any edges,
\* buildInitialPositions returns a position for exactly every service id, and
\* two distinct services never receive the same (x, y)
C37_InitialLayoutTotalAndCollisionFree ==
  cursor = 0 =>
    /\ ~rangeError
    /\ DOMAIN positions = serviceIds(services)
    /\ \A a \in DOMAIN positions, b \in DOMAIN positions :
         a # b => <<positions[a].x, positions[a].y>>
                    # <<positions[b].x, positions[b].y>>

\* a laid out graph of the most services on a cycle, two of them in one
\* column
C37_Witness ==
  /\ cursor = 0
  /\ Cyclic
  /\ Len(services) = MaxLevelNodes
  /\ DOMAIN positions = serviceIds(services)
  /\ \E a \in DOMAIN positions, b \in DOMAIN positions :
       a # b /\ positions[a].x = positions[b].x

-----------------------------------------------------------------------------
(* What the handlers leave alone.                                           *)

\* two pointers on the first node, its toggle, the zoom slider and the
\* services prop
NextFrame ==
  \/ Measure
  \/ Reconcile
  \/ Quiet /\ Click(DragServices[1].id)
  \/ Quiet /\ \E value \in SliderValues : ZoomSlider(value)
  \/ Quiet /\ \E pointerId \in Pointers :
       PointerDown(DragServices[1].id, pointerId, <<0, 0>>)
  \/ Quiet /\ \E pointerId \in Pointers, pt \in Points : PointerMove(pointerId, pt)
  \/ Quiet /\ \E pointerId \in Pointers : PointerEnd(pointerId)
  \/ \E svcs \in SmallNodeSets : SetServices(svcs)

SpecFrame == InitDrag /\ [][NextFrame]_vars

\* C38: pointer-down, pointer-move, pointer-up/cancel, zoom changes,
\* measurements and position reconciliation all leave the expanded set
\* unchanged (it changes only through a toggle), and a pointer-move or
\* pointer-up event received while no gesture is active leaves positions, the
\* gesture record and the suppression flag unchanged
C38_ExpandedChangesOnlyByToggle ==
  [][ /\ expanded' # expanded
        => \E serviceId \in serviceIds(services) :
             /\ Click(serviceId)
             /\ expanded' = toggleService(expanded, serviceId)
      /\ ( \/ Measure
           \/ Reconcile
           \/ \E value \in SliderValues : ZoomSlider(value)
           \/ \E q \in Pointers : PointerEventOf(q) )
         => expanded' = expanded
      /\ \A q \in Pointers :
           ( /\ dragState = NoDrag
             /\ \/ \E pt \in Points : PointerMove(q, pt)
                \/ PointerEnd(q) )
           => UNCHANGED <<positions, dragState, recentlyDraggedRef>> ]_vars

\* a pointer has moved and gone up on the node while no gesture was active
\* (the record was that of a second pointer, which went up before), and the
\* node has been toggled since
C38_Witness ==
  /\ gest.count = MaxGestures
  /\ DOMAIN gest.active = {}
  /\ gest.done.moved
  /\ gest.done.dx # 0
  /\ ~gest.done.alone
  /\ gest.done.final = gest.done.origin
  /\ dragState = NoDrag
  /\ recentlyDraggedRef = Null
  /\ expanded # {}

====
